---- MODULE Spec2Model ----
(***************************************************************************)
(* The outlier-analysis scripts of SECScrape as a state machine.           *)
(*                                                                         *)
(*   ev_outlier.py      single-metric analysis, TradeMode aware            *)
(*   evoutlier.py       single-metric analysis, older copy, no TradeMode   *)
(*   ev_var_outlier.py  dual-metric analysis (MCap/EV and VaR/Ask)         *)
(*                                                                         *)
(* One run of find_mcap_ev_outliers / find_dual_outliers is a sequence of  *)
(* steps: Load, one AnalyzeLargeIndustry per large industry, one           *)
(* AggregateSector per sector of the small industries, AnalyzeMisc, then   *)
(* (dual mode) Classify and Consolidate, then Report.  A step in which the *)
(* code raises ends the run at "failed" after the except clause printed    *)
(* its message.  Restart is a further call in the same process, which      *)
(* keeps the module global; MainOpen, MainWithExit and MainFinish are the  *)
(* command-line wrapper that redirects sys.stdout to the report file.      *)
(*                                                                         *)
(* Strings that the code compares, upper-cases or concatenates are         *)
(* sequences of one-character strings.  Ratios are integers; quartiles are *)
(* kept multiplied by 4 and bounds multiplied by 8, which is exact for the *)
(* linear-interpolation percentile of integers.                            *)
(*                                                                         *)
(*   evscrape.py        fills Enterprise Value, Market Cap, the two dates  *)
(*                      and MCap/EV (%) of the rows of a file              *)
(*                                                                         *)
(* scrape_from_csv is a second state machine, SpecScrape: ScrapeLoad, one  *)
(* of ScrapeMasked, ScrapeContinue and ScrapeRow per row, then ScrapeSave. *)
(* A cell is <<>> when it holds no value and <<v>> when it holds v; what   *)
(* the data service answers to a lookup is chosen at the lookup.           *)
(***************************************************************************)
EXTENDS Integers, Sequences, FiniteSets, TLC

VARIABLES
    script,                   \* which of the scripts is running
    filename,                 \* the command-line argument
    rows,                     \* the rows of the input file
    missing_columns,          \* the columns the input file lacks
    file_exists,              \* whether the input file exists
    entry,                    \* "main": run from the command line; "call": called
    open_fails,               \* whether the report file cannot be opened
    pending,                  \* the inputs of the further calls in this process
    pc,                       \* position in the run
    TOP_N_DISPLAY,            \* module global, set from the filename
    df,                       \* the tradable rows under analysis
    unactionable_symbols_df,  \* the TradeMode == 3 rows
    small_industries,         \* industries with fewer than 5 rows
    large_todo,               \* sorted(large_industries) still to analyze
    sector_todo,              \* sorted(sectors) still to aggregate
    miscellaneous_industries, \* the pooled rows of undersized sectors
    mcap_bounds,              \* industry_bounds / mcap_bounds
    var_bounds,               \* var_bounds (dual mode only)
    calls,                    \* history: every analyze_group call made
    reports,                  \* the per-group reports printed
    notes_printed,            \* the "too small to analyze" notes printed
    warnings,                 \* the warnings printed
    errors,                   \* the messages printed by the except clauses
    failure,                  \* the exception the run raised, "" when none
    Note,                     \* df['Note'] (dual mode)
    actionable_outliers,      \* the consolidated table (dual mode)
    global_stats,             \* the global quartiles and bounds printed
    top_table,                \* Top N Highest MCap/EV table
    bottom_table,             \* Bottom N Lowest MCap/EV table
    unactionable_printed,     \* the Unactionable (Close-Only) Symbols listing
    previous,                 \* what the earlier calls in this process printed, last first
    sys_stdout,               \* sys.stdout
    report_file,              \* the report file: "none", "open" or "closed"
    closed_writes,            \* the prints that went to a closed report file
    csv_path,                 \* evscrape.py: the rows of the file at csv_path
    scrape_df,                \* evscrape.py: df of scrape_from_csv
    index,                    \* evscrape.py: the row the loop of scrape_from_csv is at
    lookups,                  \* evscrape.py: history of the calls of get_financial_data
    scrape_pc,                \* evscrape.py: position in scrape_from_csv
    output_csv                \* evscrape.py: the rows written by to_csv

\* the input of the current call
input == <<script, filename, rows, missing_columns, file_exists>>

\* the process around the current call
process == <<entry, open_fails, pending, previous, sys_stdout, report_file, closed_writes>>

\* the locals of the grouping step
grouping == <<df, unactionable_symbols_df, small_industries, large_todo, sector_todo,
              miscellaneous_industries>>

\* what the call has printed or computed
output == <<mcap_bounds, var_bounds, calls, reports, notes_printed, warnings, errors,
            failure, Note, actionable_outliers, global_stats, top_table, bottom_table,
            unactionable_printed>>

\* the state of a run of evscrape.py
scraping == <<csv_path, scrape_df, index, lookups, scrape_pc, output_csv>>

vars == <<input, process, pc, TOP_N_DISPLAY, grouping, output, scraping>>

----------------------------------------------------------------------------
(* Program constants *)

MINIMUM_GROUP_SIZE == 5
STOCKS_TOP == 50
CFD_TOP == 40
FUTURES_TOP == 5
TOP_N_DEFAULT == 20

----------------------------------------------------------------------------
(* Characters and strings *)

Ord ==
    " " :> 32 @@ "(" :> 40 @@ ")" :> 41 @@ "," :> 44 @@ "-" :> 45 @@ "." :> 46 @@
    "/" :> 47 @@ "0" :> 48 @@ "1" :> 49 @@ "2" :> 50 @@ "3" :> 51 @@ "4" :> 52 @@
    "5" :> 53 @@ "6" :> 54 @@ "7" :> 55 @@ "8" :> 56 @@ "9" :> 57 @@ ":" :> 58 @@
    "_" :> 95 @@ "A" :> 65 @@ "B" :> 66 @@
    "C" :> 67 @@ "D" :> 68 @@ "E" :> 69 @@ "F" :> 70 @@ "G" :> 71 @@ "H" :> 72 @@
    "I" :> 73 @@ "J" :> 74 @@ "K" :> 75 @@ "L" :> 76 @@ "M" :> 77 @@ "N" :> 78 @@
    "O" :> 79 @@ "P" :> 80 @@ "Q" :> 81 @@ "R" :> 82 @@ "S" :> 83 @@ "T" :> 84 @@
    "U" :> 85 @@ "V" :> 86 @@ "W" :> 87 @@ "X" :> 88 @@ "Y" :> 89 @@ "Z" :> 90 @@
    "a" :> 97 @@ "b" :> 98 @@ "c" :> 99 @@ "d" :> 100 @@ "e" :> 101 @@ "f" :> 102 @@
    "g" :> 103 @@ "h" :> 104 @@ "i" :> 105 @@ "j" :> 106 @@ "k" :> 107 @@ "l" :> 108 @@
    "m" :> 109 @@ "n" :> 110 @@ "o" :> 111 @@ "p" :> 112 @@ "q" :> 113 @@ "r" :> 114 @@
    "s" :> 115 @@ "t" :> 116 @@ "u" :> 117 @@ "v" :> 118 @@ "w" :> 119 @@ "x" :> 120 @@
    "y" :> 121 @@ "z" :> 122

Chr(code) == CHOOSE c \in DOMAIN Ord : Ord[c] = code

\* str.upper(), one character
UpperChar(c) == IF Ord[c] >= 97 /\ Ord[c] <= 122 THEN Chr(Ord[c] - 32) ELSE c

\* the lower-case form of a character, as re.IGNORECASE compares
LowerChar(c) == IF Ord[c] >= 65 /\ Ord[c] <= 90 THEN Chr(Ord[c] + 32) ELSE c

Upper(s) == [i \in 1..Len(s) |-> UpperChar(s[i])]

Lower(s) == [i \in 1..Len(s) |-> LowerChar(s[i])]

\* Python's < on str: lexicographic by code point
StrLess(a, b) ==
    \E k \in 1..(Len(a) + 1) :
        /\ k <= Len(b)
        /\ \A j \in 1..(k - 1) : a[j] = b[j]
        /\ (k = Len(a) + 1 \/ Ord[a[k]] < Ord[b[k]])

\* pattern occurs in text as a contiguous substring
Contains(text, pattern) ==
    \E i \in 0..(Len(text) - Len(pattern)) :
        \A j \in 1..Len(pattern) : text[i + j] = pattern[j]

\* re.search(pattern, text, re.IGNORECASE) for a literal pattern
SearchIgnoreCase(pattern, text) == Contains(Lower(text), Lower(pattern))

\* sorted(names) of a set of strings
SortedNames(S) ==
    [p \in 1..Cardinality(S) |->
        CHOOSE x \in S : Cardinality({y \in S : StrLess(y, x)}) = p - 1]

AGGREGATED == <<"A","G","G","R","E","G","A","T","E","D"," ">>
INDUSTRIES == <<" ","I","N","D","U","S","T","R","I","E","S">>
AGGREGATED_MISCELLANEOUS ==
    <<"A","G","G","R","E","G","A","T","E","D"," ",
      "M","I","S","C","E","L","L","A","N","E","O","U","S">>
Undefined == <<"U","n","d","e","f","i","n","e","d">>

\* f"AGGREGATED {sector.upper()} INDUSTRIES"
AggregatedName(sector) == AGGREGATED \o Upper(sector) \o INDUSTRIES

RECURSIVE Digits(_)
\* str(n) for n >= 0
Digits(n) ==
    IF n < 10 THEN <<Chr(48 + n)>> ELSE Digits(n \div 10) \o <<Chr(48 + (n % 10))>>

\* '(LOW - Statistically Significant)'
LOW_NOTE ==
    <<"(","L","O","W"," ","-"," ","S","t","a","t","i","s","t","i","c","a","l","l","y",
      " ","S","i","g","n","i","f","i","c","a","n","t",")">>
\* '(HIGH - Statistically Significant)'
HIGH_NOTE ==
    <<"(","H","I","G","H"," ","-"," ","S","t","a","t","i","s","t","i","c","a","l","l",
      "y"," ","S","i","g","n","i","f","i","c","a","n","t",")">>
\* '(Within Normal Range)'
NORMAL_NOTE ==
    <<"(","W","i","t","h","i","n"," ","N","o","r","m","a","l"," ","R","a","n","g","e",
      ")">>
\* 'MCap/EV (LOW)'
MCAP_LOW == <<"M","C","a","p","/","E","V"," ","(","L","O","W",")">>
\* 'MCap/EV (HIGH)'
MCAP_HIGH == <<"M","C","a","p","/","E","V"," ","(","H","I","G","H",")">>
\* 'VaR (LOW)'
VAR_LOW == <<"V","a","R"," ","(","L","O","W",")">>
\* 'VaR (HIGH)'
VAR_HIGH == <<"V","a","R"," ","(","H","I","G","H",")">>
\* 'Dual Outlier: '
DUAL_PREFIX == <<"D","u","a","l"," ","O","u","t","l","i","e","r",":"," ">>
\* 'MCap/EV Outlier: '
MCAP_PREFIX == <<"M","C","a","p","/","E","V"," ","O","u","t","l","i","e","r",":"," ">>
\* ', '
COMMA == <<","," ">>
\* the pattern 'Dual Outlier' of str.contains
DUAL_PATTERN == <<"D","u","a","l"," ","O","u","t","l","i","e","r">>
\* the pattern 'MCap/EV Outlier' of str.contains
MCAP_PATTERN == <<"M","C","a","p","/","E","V"," ","O","u","t","l","i","e","r">>
\* ' in Bottom '
IN_BOTTOM == <<" ","i","n"," ","B","o","t","t","o","m"," ">>
\* ' in Top '
IN_TOP == <<" ","i","n"," ","T","o","p"," ">>
\* ' VaR'
VAR_SUFFIX == <<" ","V","a","R">>
\* the patterns of the file-type detection
STOCKS == <<"S","t","o","c","k","s">>
CFD == <<"C","F","D">>
FUTURES == <<"F","u","t","u","r","e","s">>

----------------------------------------------------------------------------
(* Sorting and percentiles *)

\* Body(v) with v bound to the value of an expression evaluated once
Let(value, Body(_)) == CHOOSE r \in {Body(v) : v \in {value}} : TRUE

\* a sequence of [key, item] in ascending key order, equal keys in their given
\* order (the sort of a column of at most 16 values is an insertion sort, which
\* is stable): element i goes to the place after the elements that precede it
StableSort(pairs) ==
    Let(pairs, LAMBDA ps :
        Let([i \in 1..Len(ps) |->
                Cardinality({j \in 1..Len(ps) :
                                \/ ps[j].key < ps[i].key
                                \/ ps[j].key = ps[i].key /\ j < i})],
            LAMBDA before :
                [p \in 1..Len(ps) |-> ps[CHOOSE i \in 1..Len(ps) : before[i] = p - 1]]))

\* frame[col] as a sequence of values
Column(frame, col) == [i \in 1..Len(frame) |-> frame[i][col]]

\* frame.sort_values(by=col, ascending=asc)
SortValues(frame, col, asc) ==
    Let(frame, LAMBDA f :
        Let(StableSort([i \in 1..Len(f) |->
                           [key  |-> IF asc THEN f[i][col] ELSE 0 - f[i][col],
                            item |-> f[i]]]),
            LAMBDA s : [i \in 1..Len(s) |-> s[i].item]))

\* frame.head(n)
HeadN(frame, n) ==
    Let(frame, LAMBDA f : SubSeq(f, 1, IF n < Len(f) THEN n ELSE Len(f)))

\* the ascending order statistics of a column
OrderStatistics(values) ==
    Let(values, LAMBDA v :
        Let(StableSort([i \in 1..Len(v) |-> [key |-> v[i], item |-> v[i]]]),
            LAMBDA s : [i \in 1..Len(s) |-> s[i].item]))

\* Quantile4 without the interpolation: the order statistic just below the position
Quantile4Lower(values, num) ==
    Let(OrderStatistics(values), LAMBDA x : 4 * x[((Len(x) - 1) * num) \div 4 + 1])

\* 4 * Series.quantile(num/4) for num in {1, 3}: linear interpolation between
\* the order statistics at position (n - 1) * num / 4 (values non-empty)
Quantile4(values, num) ==
    Let(OrderStatistics(values), LAMBDA x :
        LET h4 == (Len(x) - 1) * num
            lo == h4 \div 4
            fr == h4 % 4
        IN  IF fr = 0 THEN 4 * x[lo + 1]
            ELSE 4 * x[lo + 1] + fr * (x[lo + 2] - x[lo + 1]))

\* Q1, Q3, IQR (times 4) and the bounds Q1 - 1.5*IQR, Q3 + 1.5*IQR (times 8)
Fences(values) ==
    Let(<<Quantile4(values, 1), Quantile4(values, 3)>>, LAMBDA q :
        LET Q1  == q[1]
            Q3  == q[2]
            IQR == Q3 - Q1
        IN  [Q1 |-> Q1, Q3 |-> Q3, IQR |-> IQR,
             lower |-> 2 * Q1 - 3 * IQR, upper |-> 2 * Q3 + 3 * IQR])

----------------------------------------------------------------------------
(* Classification: get_outlier_note *)

\* the group whose bounds get_outlier_note looks up for a row
GroupNameOf(industry, sector, small_industries_list) ==
    IF industry \in small_industries_list
    THEN IF sector = Undefined THEN AGGREGATED_MISCELLANEOUS
         ELSE AggregatedName(sector)
    ELSE industry

\* ratio < bounds['lower'] / ratio > bounds['upper'], ratio an integer and the
\* bounds kept times 8
Below(ratio, bounds) == 8 * ratio < bounds.lower
Above(ratio, bounds) == 8 * ratio > bounds.upper

\* get_outlier_note with a ratio equal to a bound flagged as well
GetOutlierNoteInclusive(row, bounds_dict, small_industries_list) ==
    LET group_name == GroupNameOf(row.IndustryName, row.SectorName, small_industries_list)
    IN  IF group_name \in DOMAIN bounds_dict
        THEN IF 8 * row.MCapEV <= bounds_dict[group_name].lower THEN LOW_NOTE
             ELSE IF 8 * row.MCapEV >= bounds_dict[group_name].upper THEN HIGH_NOTE
             ELSE NORMAL_NOTE
        ELSE NORMAL_NOTE

\* get_outlier_note of ev_outlier.py and evoutlier.py
GetOutlierNote(row, bounds_dict, small_industries_list) ==
    LET group_name == GroupNameOf(row.IndustryName, row.SectorName, small_industries_list)
    IN  IF group_name \in DOMAIN bounds_dict
        THEN IF Below(row.MCapEV, bounds_dict[group_name]) THEN LOW_NOTE
             ELSE IF Above(row.MCapEV, bounds_dict[group_name]) THEN HIGH_NOTE
             ELSE NORMAL_NOTE
        ELSE NORMAL_NOTE

\* the per-column flag of the dual get_outlier_note
ColumnNote(group_name, ratio, bounds_dict, low, high) ==
    IF group_name \in DOMAIN bounds_dict
    THEN IF Below(ratio, bounds_dict[group_name]) THEN low
         ELSE IF Above(ratio, bounds_dict[group_name]) THEN high
         ELSE <<>>
    ELSE <<>>

\* the dual get_outlier_note with a VaR-only outlier surfaced as a category of its own
GetOutlierNoteDualVarOnly(row, mcap_b, var_b, small_industries_list) ==
    LET group_name == GroupNameOf(row.IndustryName, row.SectorName, small_industries_list)
        mcap_note  == ColumnNote(group_name, row.MCapEV, mcap_b, MCAP_LOW, MCAP_HIGH)
        var_note   == ColumnNote(group_name, row.VaR_to_Ask_Ratio, var_b, VAR_LOW, VAR_HIGH)
    IN  IF mcap_note # <<>> /\ var_note # <<>>
        THEN DUAL_PREFIX \o mcap_note \o COMMA \o var_note
        ELSE IF mcap_note # <<>> THEN MCAP_PREFIX \o mcap_note
        ELSE IF var_note # <<>>
             THEN <<"V","a","R"," ","O","u","t","l","i","e","r",":"," ">> \o var_note
        ELSE <<>>

\* get_outlier_note of ev_var_outlier.py
GetOutlierNoteDual(row, mcap_b, var_b, small_industries_list) ==
    LET group_name == GroupNameOf(row.IndustryName, row.SectorName, small_industries_list)
        mcap_note  == ColumnNote(group_name, row.MCapEV, mcap_b, MCAP_LOW, MCAP_HIGH)
        var_note   == ColumnNote(group_name, row.VaR_to_Ask_Ratio, var_b, VAR_LOW, VAR_HIGH)
    IN  IF mcap_note # <<>> /\ var_note # <<>>
        THEN DUAL_PREFIX \o mcap_note \o COMMA \o var_note
        ELSE IF mcap_note # <<>> THEN MCAP_PREFIX \o mcap_note
        ELSE <<>>

----------------------------------------------------------------------------
(* Bound computation: analyze_group *)

\* bounds stored whatever the IQR
StoreBoundsAnyIqr(group_name, values, bounds_dict) ==
    Let(Fences(values), LAMBDA f :
        (group_name :> [lower |-> f.lower, upper |-> f.upper]) @@ bounds_dict)

\* bounds_dict[group_name] = {'lower': ..., 'upper': ...} when IQR > 0
StoreBounds(group_name, values, bounds_dict) ==
    Let(Fences(values), LAMBDA f :
        IF f.IQR > 0
        THEN (group_name :> [lower |-> f.lower, upper |-> f.upper]) @@ bounds_dict
        ELSE bounds_dict)

\* analyze_group without its size guard: bounds are stored for a group of any size
AnalyzeGroupAnySize(group_name, group_df, bounds_dict, small_industries_list) ==
    [bounds  |-> StoreBounds(group_name, Column(group_df, "MCapEV"), bounds_dict),
     printed |-> <<>>]

\* analyze_group with a report printed for every group that stores bounds,
\* whether or not a row lies outside them
AnalyzeGroupAlwaysReports(group_name, group_df, bounds_dict, small_industries_list) ==
    IF Len(group_df) < MINIMUM_GROUP_SIZE
    THEN [bounds |-> bounds_dict, printed |-> <<>>]
    ELSE Let(<<Fences(Column(group_df, "MCapEV")),
               StoreBounds(group_name, Column(group_df, "MCapEV"), bounds_dict)>>,
             LAMBDA fb :
         LET f == fb[1]
             b == fb[2]
             IsOutlier(r) == 8 * r.MCapEV < f.lower \/ 8 * r.MCapEV > f.upper
         IN  Let(SelectSeq(group_df, IsOutlier), LAMBDA all_outliers :
             IF f.IQR > 0
             THEN [bounds  |-> b,
                   printed |-> << [group |-> Upper(group_name),
                                   total |-> Len(group_df),
                                   rows  |-> [i \in 1..Len(all_outliers) |->
                                       [Symbol |-> all_outliers[i].Symbol,
                                        Note   |-> GetOutlierNote(all_outliers[i], b,
                                                       small_industries_list)]]] >>]
             ELSE [bounds |-> b, printed |-> <<>>]))

\* analyze_group of ev_outlier.py and evoutlier.py: the bounds mapping after the
\* call and the report it prints (at most one)
AnalyzeGroup(group_name, group_df, bounds_dict, small_industries_list) ==
    IF Len(group_df) < MINIMUM_GROUP_SIZE
    THEN [bounds |-> bounds_dict, printed |-> <<>>]
    ELSE Let(<<Fences(Column(group_df, "MCapEV")),
               StoreBounds(group_name, Column(group_df, "MCapEV"), bounds_dict)>>,
             LAMBDA fb :
         LET f == fb[1]
             b == fb[2]
             IsOutlier(r) == 8 * r.MCapEV < f.lower \/ 8 * r.MCapEV > f.upper
         IN  Let(SelectSeq(group_df, IsOutlier), LAMBDA all_outliers :
             IF f.IQR > 0 /\ all_outliers # <<>>
             THEN [bounds  |-> b,
                   printed |-> << [group |-> Upper(group_name),
                                   total |-> Len(group_df),
                                   rows  |-> [i \in 1..Len(all_outliers) |->
                                       [Symbol |-> all_outliers[i].Symbol,
                                        Note   |-> GetOutlierNote(all_outliers[i], b,
                                                       small_industries_list)]]] >>]
             ELSE [bounds |-> b, printed |-> <<>>]))

\* analyze_group of ev_var_outlier.py: both bounds mappings after the call
AnalyzeGroupDual(group_name, group_df, mcap_b, var_b) ==
    IF Len(group_df) < MINIMUM_GROUP_SIZE
    THEN [mcap |-> mcap_b, var |-> var_b]
    ELSE [mcap |-> StoreBounds(group_name, Column(group_df, "MCapEV"), mcap_b),
          var  |-> StoreBounds(group_name, Column(group_df, "VaR_to_Ask_Ratio"), var_b)]

----------------------------------------------------------------------------
(* Grouping *)

\* the rows of a frame that satisfy a row predicate, in order
RowsOfIndustry(frame, industry) ==
    LET Test(r) == r.IndustryName = industry IN SelectSeq(frame, Test)

RowsOfSector(frame, sector) ==
    LET Test(r) == r.SectorName = sector IN SelectSeq(frame, Test)

\* df['IndustryName'].value_counts()
IndustryCounts(frame) ==
    [ind \in {frame[i].IndustryName : i \in 1..Len(frame)} |->
        Cardinality({i \in 1..Len(frame) : frame[i].IndustryName = ind})]

LargeIndustries(frame) ==
    Let(IndustryCounts(frame), LAMBDA industry_counts :
        {ind \in DOMAIN industry_counts : industry_counts[ind] >= MINIMUM_GROUP_SIZE})

\* SmallIndustries with an industry of exactly MINIMUM_GROUP_SIZE rows counted as small
SmallIndustriesInclusive(frame) ==
    Let(IndustryCounts(frame), LAMBDA industry_counts :
        {ind \in DOMAIN industry_counts : industry_counts[ind] <= MINIMUM_GROUP_SIZE})

SmallIndustries(frame) ==
    Let(IndustryCounts(frame), LAMBDA industry_counts :
        {ind \in DOMAIN industry_counts : industry_counts[ind] < MINIMUM_GROUP_SIZE})

\* df[df['IndustryName'].isin(small_industries)]
SmallIndustriesDf(frame, small) ==
    LET Test(r) == r.IndustryName \in small IN SelectSeq(frame, Test)

\* small_industries_df['SectorName'].unique()
SectorsOf(frame) == {frame[i].SectorName : i \in 1..Len(frame)}

\* the Symbol column as a set
Symbols(frame) == {frame[i].Symbol : i \in 1..Len(frame)}

\* the file-type detection: the first of Stocks, CFD, Futures found in the
\* filename sets the global; with none found the global keeps its value
TopNFor(name, current) ==
    IF SearchIgnoreCase(STOCKS, name) THEN STOCKS_TOP
    ELSE IF SearchIgnoreCase(CFD, name) THEN CFD_TOP
    ELSE IF SearchIgnoreCase(FUTURES, name) THEN FUTURES_TOP
    ELSE current

\* df[df['TradeMode'] != 3]; evoutlier.py has no TradeMode handling
Tradable(s, frame) ==
    LET Test(r) == r.TradeMode # 3
    IN  IF s = "evoutlier" THEN frame ELSE SelectSeq(frame, Test)

\* df[df['TradeMode'] == 3][['Symbol', 'IndustryName']]
Unactionable(s, frame) ==
    LET Test(r) == r.TradeMode = 3
        u == SelectSeq(frame, Test)
    IN  IF s = "evoutlier" THEN <<>>
        ELSE [i \in 1..Len(u) |->
                 [Symbol |-> u[i].Symbol, IndustryName |-> u[i].IndustryName]]

\* sorted(sectors) of the small-industry rows; nothing when small_industries is empty
SectorsToAggregate(frame) ==
    IF SmallIndustries(frame) = {} THEN <<>>
    ELSE SortedNames(SectorsOf(SmallIndustriesDf(frame, SmallIndustries(frame))))

----------------------------------------------------------------------------
(* Consolidation (ev_var_outlier.py) *)

\* df[df['Note'].str.contains(pattern)], with the Note column attached
WithNote(frame, note) ==
    [i \in 1..Len(frame) |->
        [Symbol |-> frame[i].Symbol, MCapEV |-> frame[i].MCapEV,
         VaR_to_Ask_Ratio |-> frame[i].VaR_to_Ask_Ratio, Note |-> note[frame[i].Symbol]]]

NoteContains(frame, pattern) ==
    LET Test(r) == Contains(r.Note, pattern) IN SelectSeq(frame, Test)

\* frame[frame['Symbol'].isin(symbols)] with Note := f"{Note}{tag}{N} VaR"
TaggedSlice(frame, symbols, tag, n) ==
    Let(symbols, LAMBDA syms :
        LET Test(r) == r.Symbol \in syms
        IN  Let(SelectSeq(frame, Test), LAMBDA s :
                [i \in 1..Len(s) |->
                    [s[i] EXCEPT !.Note = @ \o tag \o Digits(n) \o VAR_SUFFIX]]))

\* the rows of a frame at the positions of a set, in order
RowsAt(frame, positions) ==
    Let(<<frame, positions>>, LAMBDA a :
        [p \in 1..Cardinality(a[2]) |->
            a[1][CHOOSE i \in a[2] : Cardinality({j \in a[2] : j < i}) = p - 1]])

\* drop_duplicates keeping the last occurrence of a symbol instead of the first
DropDuplicatesKeepLast(frame) ==
    Let(frame, LAMBDA f :
        RowsAt(f, {i \in 1..Len(f) :
                      \A j \in (i + 1)..Len(f) : f[j].Symbol # f[i].Symbol}))

\* frame.drop_duplicates(subset=['Symbol']): the first row of each symbol is kept
DropDuplicates(frame) ==
    Let(frame, LAMBDA f :
        RowsAt(f, {i \in 1..Len(f) : \A j \in 1..(i - 1) : f[j].Symbol # f[i].Symbol}))

\* the N lowest / highest VaR symbols of the tradable rows
BottomNVarSymbols(frame, n) == Symbols(HeadN(SortValues(frame, "VaR_to_Ask_Ratio", TRUE), n))
TopNVarSymbols(frame, n) == Symbols(HeadN(SortValues(frame, "VaR_to_Ask_Ratio", FALSE), n))

\* pd.concat([dual_outliers, mcap_in_bottom_n, mcap_in_top_n])
\*     .drop_duplicates(subset=['Symbol']).sort_values(by='MCap/EV (%)', ascending=False)
ActionableOutliers(frame, note, n) ==
    Let(WithNote(frame, note), LAMBDA noted :
    Let(NoteContains(noted, MCAP_PATTERN), LAMBDA mcap_outliers :
        LET dual_outliers    == NoteContains(noted, DUAL_PATTERN)
            mcap_in_bottom_n == TaggedSlice(mcap_outliers, BottomNVarSymbols(frame, n),
                                            IN_BOTTOM, n)
            mcap_in_top_n    == TaggedSlice(mcap_outliers, TopNVarSymbols(frame, n),
                                            IN_TOP, n)
        IN  SortValues(DropDuplicates(dual_outliers \o mcap_in_bottom_n \o mcap_in_top_n),
                       "MCapEV", FALSE)))

\* a top-N / bottom-N table taken from the head of the frame as it stands
RankTableUnsorted(s, frame, asc, n, bounds_dict, small, note) ==
    Let(HeadN(frame, n), LAMBDA t :
        [i \in 1..Len(t) |->
            [Symbol |-> t[i].Symbol, MCapEV |-> t[i].MCapEV,
             Note   |-> IF s = "ev_var_outlier" THEN note[t[i].Symbol]
                        ELSE GetOutlierNote(t[i], bounds_dict, small)]])

\* a top-N / bottom-N table: the rows with the notes they are printed with
RankTable(s, frame, asc, n, bounds_dict, small, note) ==
    Let(HeadN(SortValues(frame, "MCapEV", asc), n), LAMBDA t :
        [i \in 1..Len(t) |->
            [Symbol |-> t[i].Symbol, MCapEV |-> t[i].MCapEV,
             Note   |-> IF s = "ev_var_outlier" THEN note[t[i].Symbol]
                        ELSE GetOutlierNote(t[i], bounds_dict, small)]])

----------------------------------------------------------------------------
(* Input files *)

MaxRows == 12    \* most rows of an input file laid out over several industries
MaxGroup == 6    \* most rows of an input file that holds one industry

Foo == <<"F","o","o">>
Bar == <<"B","a","r">>
Banks == <<"B","a","n","k","s">>
Coal == <<"C","o","a","l">>
Gold == <<"G","o","l","d">>
Silk == <<"S","i","l","k">>
Tin == <<"T","i","n">>
FuturesCsv == <<"F","u","t","u","r","e","s",".","c","s","v">>
OtherCsv == <<"o","t","h","e","r",".","c","s","v">>
StocksCsv == <<"S","t","o","c","k","s","_","2","0","2","4",".","c","s","v">>
CfdCsv == <<"c","f","d","_","d","a","t","a",".","c","s","v">>
LowerFuturesCsv == <<"f","u","t","u","r","e","s",".","c","s","v">>
CfdStocksCsv == <<"C","F","D","_","s","t","o","c","k","s",".","c","s","v">>
FuturesCfdCsv == <<"F","u","t","u","r","e","s","_","c","f","d",".","c","s","v">>

Scripts == {"ev_outlier", "evoutlier", "ev_var_outlier"}

\* the industries of the inputs, each in its sector, with the numbers of rows
\* it can have in an input
Cells ==
    << [ind |-> Banks, sec |-> Foo,       sizes |-> {0, 3, 5}],
       [ind |-> Coal,  sec |-> Foo,       sizes |-> {0, 2, 3}],
       [ind |-> Gold,  sec |-> Undefined, sizes |-> {0, 3, 5}],
       [ind |-> Silk,  sec |-> Undefined, sizes |-> {0, 2}],
       [ind |-> Tin,   sec |-> Bar,       sizes |-> {0, 2}] >>

CellSizes == {0, 2, 3, 5}

\* the ratio values of an industry's rows, first row first
Patterns == << <<5, 5, 5, 5, 5>>, <<0, 1, 4, 8, 100>>, <<100, 8, 4, 1, 0>> >>

\* the patterns the MCap/EV ratios of an industry are taken from
McapPatterns == {1, 2}

\* the VaR pattern of each industry of Cells, one layout per entry
VarLayouts == << <<1, 1, 1, 1, 1>>, <<2, 2, 3, 1, 2>> >>

\* the ratio values of the single-industry inputs
ExampleValues == <<1, 2, 3, 4, 100>>

\* ratio values of single-industry inputs that include the bounds themselves:
\* five rows with ratios 1, 4, 5, 6, 9 have the bounds [1, 9]
BoundaryValues == <<0, 1, 4, 5, 6, 9, 10>>
PairValues ==
    << <<0, 0>>, <<0, 1>>, <<0, 4>>, <<3, 0>>, <<3, 1>>, <<3, 4>>,
       <<4, 0>>, <<4, 1>>, <<4, 4>> >>

\* what the text of a MCap/EV cell can be: a number, nothing, or "-inf"
CellTexts == {"number", "", "-inf"}

RECURSIVE Total(_, _)
Total(shape, c) == IF c = 0 THEN 0 ELSE shape[c] + Total(shape, c - 1)

Shapes ==
    {s \in [1..Len(Cells) -> CellSizes] :
        /\ \A c \in 1..Len(Cells) : s[c] \in Cells[c].sizes
        /\ Total(s, Len(Cells)) >= 1
        /\ Total(s, Len(Cells)) <= MaxRows}

PatternChoices(shape) ==
    {pa \in [1..Len(Cells) -> McapPatterns] :
        \A c \in 1..Len(Cells) : shape[c] = 0 => pa[c] = 1}

PatternValue(p, k) == Patterns[p][((k - 1) % Len(Patterns[p])) + 1]

\* the rows of all cells, cell after cell: symbols are numbered in row order
CellRows(shape, pa, vp) ==
    [i \in 1..Total(shape, Len(Cells)) |->
        LET c == CHOOSE d \in 1..Len(Cells) : Total(shape, d - 1) < i /\ i <= Total(shape, d)
            k == i - Total(shape, c - 1)
        IN  [Symbol |-> i,
             IndustryName |-> Cells[c].ind, SectorName |-> Cells[c].sec,
             MCapEV |-> PatternValue(pa[c], k), MCapEVText |-> "number",
             VaR_to_Ask_Ratio |-> PatternValue(VarLayouts[vp][c], k),
             TradeMode |-> 0]]

\* the first row made close-only
CloseOnlyFirst(frame) ==
    IF frame = <<>> THEN frame ELSE [frame EXCEPT ![1].TradeMode = 3]

\* the first row made close-only, with the text of its MCap/EV cell
CloseOnlyFirstWith(frame, text) ==
    [CloseOnlyFirst(frame) EXCEPT ![1].MCapEVText = text]

RECURSIVE SortedSeqs(_, _)
\* the non-decreasing sequences of length n over 1..k
SortedSeqs(n, k) ==
    IF n = 0 THEN {<<>>}
    ELSE UNION { {Append(s, j) : j \in (IF s = <<>> THEN 1 ELSE s[Len(s)])..k} :
                 s \in SortedSeqs(n - 1, k) }

\* one industry (Banks, sector Foo) with the given (MCap/EV, VaR) pairs
OneIndustry(pairs) ==
    [k \in 1..Len(pairs) |->
        [Symbol |-> k, IndustryName |-> Banks, SectorName |-> Foo,
         MCapEV |-> pairs[k][1], MCapEVText |-> "number",
         VaR_to_Ask_Ratio |-> pairs[k][2], TradeMode |-> 0]]

\* two files of the repeated calls: a large industry with an outlier and a pool
\* of four rows from two sectors; a large industry and three rows of another
\* sector, every ratio the same
MixedRows == CellRows(<<5, 2, 0, 0, 2>>, <<2, 2, 1, 1, 2>>, 2)
FlatRows == CellRows(<<5, 0, 3, 0, 0>>, <<1, 1, 1, 1, 1>>, 1)

\* a row of an input file with both ratios equal to v
RowWith(sym, industry, sector, v) ==
    [Symbol |-> sym, IndustryName |-> industry, SectorName |-> sector,
     MCapEV |-> v, MCapEVText |-> "number", VaR_to_Ask_Ratio |-> v, TradeMode |-> 0]

\* a file with two sectors whose names differ in case only, "Foo" and "FOO", each
\* with five rows of small industries
SectorCaseRows ==
    << RowWith(1, Coal, Foo, 0), RowWith(2, Coal, Foo, 1), RowWith(3, Coal, Foo, 4),
       RowWith(4, Silk, Foo, 0), RowWith(5, Silk, Foo, 1),
       RowWith(6, Gold, Upper(Foo), 100), RowWith(7, Gold, Upper(Foo), 8),
       RowWith(8, Gold, Upper(Foo), 4),
       RowWith(9, Tin, Upper(Foo), 100), RowWith(10, Tin, Upper(Foo), 8) >>

\* a file with an industry of five rows that is named like the aggregate of
\* sector "Foo", and five rows of small industries in sector "Foo"
IndustryNameRows ==
    << RowWith(1, AggregatedName(Foo), Bar, 100), RowWith(2, AggregatedName(Foo), Bar, 8),
       RowWith(3, AggregatedName(Foo), Bar, 4), RowWith(4, AggregatedName(Foo), Bar, 100),
       RowWith(5, AggregatedName(Foo), Bar, 8),
       RowWith(6, Coal, Foo, 0), RowWith(7, Coal, Foo, 1), RowWith(8, Coal, Foo, 4),
       RowWith(9, Silk, Foo, 0), RowWith(10, Silk, Foo, 1) >>

\* the inputs of the repeated calls
SessionInputs ==
    {[filename |-> n, rows |-> MixedRows, missing_columns |-> {}, file_exists |-> TRUE] :
        n \in {StocksCsv, CfdCsv, LowerFuturesCsv, OtherCsv, CfdStocksCsv, FuturesCfdCsv}}
    \cup
    {[filename |-> n, rows |-> FlatRows, missing_columns |-> {}, file_exists |-> TRUE] :
        n \in {LowerFuturesCsv, OtherCsv}}
    \cup
    {[filename |-> n, rows |-> <<>>, missing_columns |-> {}, file_exists |-> FALSE] :
        n \in {StocksCsv, LowerFuturesCsv}}

\* the inputs of three calls in a row
TripleInputs == {i \in SessionInputs : i.rows # MixedRows}

\* the sets of columns an input file can lack
MissingChoices ==
    {{}, {"MCap/EV (%)"}, {"TradeMode"}, {"VaR_to_Ask_Ratio"}, {"SectorName"},
     {"AskPrice"}, {"BidPrice"}}

EmptyMap == [x \in {} |-> x]

\* the state before the process starts
Fresh ==
    /\ pc = IF entry = "main" THEN "main" ELSE "start"
    /\ TOP_N_DISPLAY = TOP_N_DEFAULT
    /\ df = <<>>
    /\ unactionable_symbols_df = <<>>
    /\ small_industries = {}
    /\ large_todo = <<>>
    /\ sector_todo = <<>>
    /\ miscellaneous_industries = <<>>
    /\ mcap_bounds = EmptyMap
    /\ var_bounds = EmptyMap
    /\ calls = <<>>
    /\ reports = <<>>
    /\ notes_printed = <<>>
    /\ warnings = <<>>
    /\ errors = <<>>
    /\ failure = ""
    /\ Note = EmptyMap
    /\ actionable_outliers = <<>>
    /\ global_stats = <<>>
    /\ top_table = <<>>
    /\ bottom_table = <<>>
    /\ unactionable_printed = <<>>
    /\ previous = <<>>
    /\ sys_stdout = "original"
    /\ report_file = "none"
    /\ closed_writes = 0

\* one call of the function on a file that exists and has every column
OneCall ==
    /\ missing_columns = {}
    /\ file_exists = TRUE
    /\ entry = "call"
    /\ open_fails = FALSE
    /\ pending = <<>>

\* inputs laid out over the industries of Cells
InitCells ==
    \E shape \in Shapes : \E pa \in PatternChoices(shape) :
    \E s \in Scripts : \E vp \in 1..Len(VarLayouts) : \E closeOnly \in BOOLEAN :
        /\ s # "ev_var_outlier" => vp = 1
        /\ s # "ev_outlier" => ~closeOnly
        /\ script = s
        /\ filename = IF s = "ev_var_outlier" THEN FuturesCsv ELSE OtherCsv
        /\ rows = IF closeOnly THEN CloseOnlyFirst(CellRows(shape, pa, vp))
                  ELSE CellRows(shape, pa, vp)
        /\ OneCall

\* single-metric inputs of one industry with ratios among 1, 2, 3, 4, 100
InitExample ==
    \E n \in MINIMUM_GROUP_SIZE..MaxGroup : \E v \in SortedSeqs(n, Len(ExampleValues)) :
    \E s \in {"ev_outlier", "evoutlier"} :
        /\ script = s
        /\ filename = FuturesCsv
        /\ rows = OneIndustry([k \in 1..n |-> <<ExampleValues[v[k]], 0>>])
        /\ OneCall

\* single-metric inputs of one industry of five rows with ratios among the
\* boundary values
InitBoundary ==
    \E v \in SortedSeqs(MINIMUM_GROUP_SIZE, Len(BoundaryValues)) :
    \E s \in {"ev_outlier", "evoutlier"} :
        /\ script = s
        /\ filename = FuturesCsv
        /\ rows = OneIndustry([k \in 1..MINIMUM_GROUP_SIZE |-> <<BoundaryValues[v[k]], 0>>])
        /\ OneCall

\* dual-metric inputs of one industry
InitPairs ==
    \E n \in (MINIMUM_GROUP_SIZE + 1)..MaxGroup : \E v \in SortedSeqs(n, Len(PairValues)) :
        /\ script = "ev_var_outlier"
        /\ filename = FuturesCsv
        /\ rows = OneIndustry([k \in 1..n |-> PairValues[v[k]]])
        /\ OneCall

\* inputs whose first row is close-only, its MCap/EV cell a number, empty or
\* "-inf"; every other cell of the file is a number.  evoutlier.py does not
\* take the close-only row out, so its cell is not empty there.
InitCloseOnly ==
    \E shape \in Shapes : \E s \in Scripts : \E text \in CellTexts :
        /\ s = "evoutlier" => text # ""
        /\ script = s
        /\ filename = FuturesCsv
        /\ rows = CloseOnlyFirstWith(CellRows(shape, [c \in 1..Len(Cells) |-> 2], 2), text)
        /\ OneCall

\* two calls in one process
InitSession ==
    \E s \in Scripts : \E first \in SessionInputs : \E second \in SessionInputs :
        /\ script = s
        /\ filename = first.filename
        /\ rows = first.rows
        /\ missing_columns = first.missing_columns
        /\ file_exists = first.file_exists
        /\ entry = "call"
        /\ open_fails = FALSE
        /\ pending = <<second>>

\* inputs in which two groups come to the same group name
InitSameName ==
    \E s \in Scripts : \E r \in {SectorCaseRows, IndustryNameRows} :
        /\ script = s
        /\ filename = OtherCsv
        /\ rows = r
        /\ OneCall

\* three calls in one process, each on a file of equal ratios or on no file
InitTriple ==
    \E s \in Scripts : \E first \in TripleInputs :
    \E second \in TripleInputs : \E third \in TripleInputs :
        /\ script = s
        /\ filename = first.filename
        /\ rows = first.rows
        /\ missing_columns = first.missing_columns
        /\ file_exists = first.file_exists
        /\ entry = "call"
        /\ open_fails = FALSE
        /\ pending = <<second, third>>

\* one call on a file that lacks a column, or on no file
InitFaulty ==
    \E s \in Scripts : \E missing \in MissingChoices : \E exists \in BOOLEAN :
    \E r \in {MixedRows, FlatRows} :
        /\ missing # {} \/ ~exists
        /\ script = s
        /\ filename = OtherCsv
        /\ rows = IF exists THEN r ELSE <<>>
        /\ missing_columns = missing
        /\ file_exists = exists
        /\ entry = "call"
        /\ open_fails = FALSE
        /\ pending = <<>>

\* the scripts with a redirected report run from the command line
InitMain ==
    \E s \in {"ev_outlier", "ev_var_outlier"} : \E missing \in {{}, {"TradeMode"}} :
    \E exists \in BOOLEAN : \E fails \in BOOLEAN :
        /\ script = s
        /\ filename = LowerFuturesCsv
        /\ rows = IF exists THEN MixedRows ELSE <<>>
        /\ missing_columns = missing
        /\ file_exists = exists
        /\ entry = "main"
        /\ open_fails = fails
        /\ pending = <<>>

\* evscrape.py is not running
NoScrape ==
    /\ csv_path = <<>>
    /\ scrape_df = <<>>
    /\ index = 0
    /\ lookups = <<>>
    /\ scrape_pc = "idle"
    /\ output_csv = <<>>

Init ==
    /\ InitCells \/ InitExample \/ InitBoundary \/ InitPairs \/ InitCloseOnly
           \/ InitSameName \/ InitSession \/ InitTriple \/ InitFaulty \/ InitMain
    /\ Fresh
    /\ NoScrape

----------------------------------------------------------------------------
(* Loading and cleaning *)

\* the rows that reach the TradeMode split.  The single-metric scripts keep
\* df[df['MCap/EV (%)'] != -np.inf], which drops the -inf cells and keeps the
\* missing ones; the dual script replaces inf by NaN and drops the rows whose
\* MCap/EV is NaN (the VaR cells of the inputs are numbers)
Cleaned(s, frame) ==
    LET NotInf(r) == r.MCapEVText # "-inf"
        IsNumber(r) == r.MCapEVText = "number"
    IN  IF s = "ev_var_outlier" THEN SelectSeq(frame, IsNumber)
        ELSE SelectSeq(frame, NotInf)

\* required_columns; ev_var_outlier.py has no such check
RequiredColumns(s) ==
    IF s = "ev_outlier"
    THEN {"Symbol", "SectorName", "IndustryName", "MCap/EV (%)", "TradeMode",
          "AskPrice", "BidPrice", "VaR_to_Ask_Ratio"}
    ELSE IF s = "evoutlier"
    THEN {"Symbol", "SectorName", "IndustryName", "MCap/EV (%)"}
    ELSE {}

\* the columns that are subscripted, unguarded, between read_csv and the first
\* loop: a missing one raises KeyError
LoadColumns(s) ==
    IF s = "ev_outlier"
    THEN {"MCap/EV (%)", "TradeMode", "Symbol", "IndustryName"}
    ELSE IF s = "evoutlier"
    THEN {"MCap/EV (%)", "IndustryName"}
    ELSE {"MCap/EV (%)", "VaR_to_Ask_Ratio", "TradeMode", "Symbol", "IndustryName"}

\* the columns read when a row is noted and printed in a per-group report or in
\* a top/bottom table of the single-metric scripts (get_outlier_note, then
\* row[col] in _print_table or the f-strings of evoutlier.py)
RowColumns(s) ==
    IF s = "ev_outlier"
    THEN {"Symbol", "SectorName", "IndustryName", "MCap/EV (%)", "AskPrice",
          "VaR_to_Ask_Ratio"}
    ELSE {"Symbol", "SectorName", "IndustryName", "MCap/EV (%)"}

\* the exception raised between the entry of the function and the first loop,
\* "" when there is none
LoadException(s, missing, exists) ==
    IF ~exists THEN "FileNotFoundError"
    ELSE IF LoadColumns(s) \cap missing # {} THEN "KeyError"
    ELSE ""

\* the warnings printed between read_csv and the first loop, in order: one per
\* "-inf" cell, the missing-columns warning, the Spread % warning.  In the
\* single-metric scripts a missing MCap/EV column raises before the
\* missing-columns warning is reached.
LoadWarnings(s, frame, missing, exists) ==
    LET IsInf(r) == r.MCapEVText = "-inf"
        inf == SelectSeq(frame, IsInf)
        invalid ==
            IF s # "ev_var_outlier" /\ {"MCap/EV (%)", "Symbol"} \cap missing = {}
            THEN [i \in 1..Len(inf) |-> [kind |-> "invalid", symbol |-> inf[i].Symbol]]
            ELSE <<>>
        required ==
            IF s # "ev_var_outlier" /\ "MCap/EV (%)" \notin missing
                                     /\ RequiredColumns(s) \cap missing # {}
            THEN << [kind |-> "missing", columns |-> RequiredColumns(s) \cap missing] >>
            ELSE <<>>
        spread ==
            IF /\ {"BidPrice", "AskPrice"} \cap missing # {}
               /\ \/ s = "ev_var_outlier"
                  \/ s = "ev_outlier" /\ "MCap/EV (%)" \notin missing
            THEN << [kind |-> "spread"] >>
            ELSE <<>>
    IN  IF exists THEN invalid \o required \o spread ELSE <<>>

\* the handler of the try statement of the entry point without its second
\* clause: only FileNotFoundError is caught
ExceptFileNotFoundOnly(exception) ==
    IF exception = "FileNotFoundError"
    THEN [message |-> "file not found", raised |-> FALSE]
    ELSE [message |-> "", raised |-> TRUE]

\* except FileNotFoundError: ... except Exception as e: ... of the entry point:
\* the message printed, and whether the exception leaves the function
Except(exception) ==
    IF exception = "FileNotFoundError"
    THEN [message |-> "file not found", raised |-> FALSE]
    ELSE [message |-> "unexpected error", raised |-> FALSE]

\* industry_bounds = {} / mcap_bounds, var_bounds = {}, {} with the mapping of
\* the previous call kept
KeptBounds(old) == old

\* industry_bounds = {} / mcap_bounds, var_bounds = {}, {}
NewBounds(old) == EmptyMap

\* miscellaneous_industries = [] with the list of the previous call kept
KeptPool(old) == old

\* miscellaneous_industries = []
NewPool(old) == <<>>

----------------------------------------------------------------------------
(* The run *)

\* one entry of the call history
Call(kind, name, key, frame, mb, vb) ==
    [kind |-> kind, name |-> name, key |-> key, syms |-> Column(frame, "Symbol"),
     mcap |-> IF name \in DOMAIN mb THEN <<mb[name]>> ELSE <<>>,
     var  |-> IF name \in DOMAIN vb THEN <<vb[name]>> ELSE <<>>]

\* an exception inside the try statement, after the messages printed so far: the
\* except clause that catches it prints its message and the function returns;
\* an exception no clause catches leaves the function
RaiseAfter(exception, printed) ==
    \E h \in {Except(exception)} :
        /\ failure' = exception
        /\ errors' = IF h.raised THEN printed ELSE Append(printed, h.message)
        /\ pc' = IF h.raised THEN "raised" ELSE "failed"

Raise(exception) == RaiseAfter(exception, errors)

\* analyze_group(name, frame, ...) as the running script defines it, the run
\* going on at next.  A report of the single-metric scripts notes and prints
\* its rows after the bounds are stored and its heading is printed; a column it
\* reads and the file lacks raises KeyError there.
Analyze(kind, name, key, frame, next) ==
    IF script = "ev_var_outlier"
    THEN \E r \in {AnalyzeGroupDual(name, frame, mcap_bounds, var_bounds)} :
             /\ mcap_bounds' = r.mcap
             /\ var_bounds' = r.var
             /\ reports' = reports
             /\ calls' = Append(calls, Call(kind, name, key, frame, r.mcap, r.var))
             /\ pc' = next
             /\ UNCHANGED <<errors, failure>>
    ELSE \E r \in {AnalyzeGroup(name, frame, mcap_bounds, small_industries)} :
             /\ mcap_bounds' = r.bounds
             /\ var_bounds' = var_bounds
             /\ calls' = Append(calls, Call(kind, name, key, frame, r.bounds, var_bounds))
             /\ IF r.printed # <<>> /\ RowColumns(script) \cap missing_columns # {}
                THEN /\ reports' = reports \o
                            [i \in 1..Len(r.printed) |-> [r.printed[i] EXCEPT !.rows = <<>>]]
                     /\ Raise("KeyError")
                ELSE /\ reports' = reports \o r.printed
                     /\ pc' = next
                     /\ UNCHANGED <<errors, failure>>

\* from the entry of find_mcap_ev_outliers / find_dual_outliers to the first
\* loop; nothing of an earlier call is left in the locals or on the output
Load ==
    /\ pc = "start"
    /\ TOP_N_DISPLAY' = TopNFor(filename, TOP_N_DISPLAY)
    /\ warnings' = LoadWarnings(script, rows, missing_columns, file_exists)
    /\ \E exception \in {LoadException(script, missing_columns, file_exists)} :
       \E cleaned \in {Cleaned(script, rows)} :
           IF exception # ""
           THEN /\ RaiseAfter(exception, <<>>)
                /\ df' = <<>>
                /\ unactionable_symbols_df' = <<>>
                /\ small_industries' = {}
                /\ large_todo' = <<>>
                /\ sector_todo' = <<>>
                /\ miscellaneous_industries' = <<>>
                /\ mcap_bounds' = EmptyMap
                /\ var_bounds' = EmptyMap
           ELSE /\ df' = Tradable(script, cleaned)
                /\ unactionable_symbols_df' = Unactionable(script, cleaned)
                /\ small_industries' = SmallIndustries(df')
                /\ large_todo' = SortedNames(LargeIndustries(df'))
                /\ sector_todo' = SectorsToAggregate(df')
                /\ miscellaneous_industries' = NewPool(miscellaneous_industries)
                /\ mcap_bounds' = NewBounds(mcap_bounds)
                /\ var_bounds' = NewBounds(var_bounds)
                /\ pc' = "group"
                /\ errors' = <<>>
                /\ failure' = ""
    /\ calls' = <<>>
    /\ reports' = <<>>
    /\ notes_printed' = <<>>
    /\ Note' = EmptyMap
    /\ actionable_outliers' = <<>>
    /\ global_stats' = <<>>
    /\ top_table' = <<>>
    /\ bottom_table' = <<>>
    /\ unactionable_printed' = <<>>
    /\ UNCHANGED <<input, process>>
    /\ UNCHANGED scraping

\* one iteration of: for industry in sorted(large_industries)
AnalyzeLargeIndustry ==
    /\ pc = "group"
    /\ large_todo # <<>>
    /\ \E industry_df \in {RowsOfIndustry(df, Head(large_todo))} :
           Analyze("industry", Head(large_todo), Head(large_todo), industry_df, "group")
    /\ large_todo' = Tail(large_todo)
    /\ UNCHANGED <<input, process, TOP_N_DISPLAY, df, unactionable_symbols_df,
                   small_industries, sector_todo, miscellaneous_industries, notes_printed,
                   warnings, Note, actionable_outliers, global_stats, top_table,
                   bottom_table, unactionable_printed>>
    /\ UNCHANGED scraping

\* one iteration of: for sector in sorted(sectors); the SectorName column is
\* first read when the sectors of the small industries are collected
AggregateSector ==
    /\ pc = "group"
    /\ large_todo = <<>>
    /\ sector_todo # <<>>
    /\ IF "SectorName" \in missing_columns
       THEN /\ Raise("KeyError")
            /\ UNCHANGED <<sector_todo, miscellaneous_industries, mcap_bounds, var_bounds,
                           reports, calls>>
       ELSE /\ \E sector \in {Head(sector_todo)} :
               \E sector_df \in {RowsOfSector(SmallIndustriesDf(df, small_industries), sector)} :
                   IF Len(sector_df) >= MINIMUM_GROUP_SIZE
                   THEN /\ Analyze("sector", AggregatedName(sector), sector, sector_df, "group")
                        /\ miscellaneous_industries' = miscellaneous_industries
                   ELSE /\ miscellaneous_industries' = miscellaneous_industries \o sector_df
                        /\ UNCHANGED <<mcap_bounds, var_bounds, reports, calls, pc, errors,
                                       failure>>
            /\ sector_todo' = Tail(sector_todo)
    /\ UNCHANGED <<input, process, TOP_N_DISPLAY, df, unactionable_symbols_df,
                   small_industries, large_todo, notes_printed, warnings, Note,
                   actionable_outliers, global_stats, top_table, bottom_table,
                   unactionable_printed>>
    /\ UNCHANGED scraping

\* AnalyzeMisc with the "too small" note printed by every script
AnalyzeMiscAlwaysNotes ==
    /\ pc = "group"
    /\ large_todo = <<>>
    /\ sector_todo = <<>>
    /\ \E next \in {IF script = "ev_var_outlier" THEN "classify" ELSE "report"} :
       IF Len(miscellaneous_industries) >= MINIMUM_GROUP_SIZE
       THEN /\ Analyze("misc", AGGREGATED_MISCELLANEOUS, AGGREGATED_MISCELLANEOUS,
                       miscellaneous_industries, next)
            /\ notes_printed' = notes_printed
       ELSE /\ notes_printed' =
                   IF miscellaneous_industries # <<>>
                   THEN Append(notes_printed, Len(miscellaneous_industries))
                   ELSE notes_printed
            /\ pc' = next
            /\ UNCHANGED <<mcap_bounds, var_bounds, reports, calls, errors, failure>>
    /\ UNCHANGED <<input, process, TOP_N_DISPLAY, grouping, warnings, Note,
                   actionable_outliers, global_stats, top_table, bottom_table,
                   unactionable_printed>>
    /\ UNCHANGED scraping

\* after the sector loop: if miscellaneous_industries: ...
AnalyzeMisc ==
    /\ pc = "group"
    /\ large_todo = <<>>
    /\ sector_todo = <<>>
    /\ \E next \in {IF script = "ev_var_outlier" THEN "classify" ELSE "report"} :
       IF Len(miscellaneous_industries) >= MINIMUM_GROUP_SIZE
       THEN /\ Analyze("misc", AGGREGATED_MISCELLANEOUS, AGGREGATED_MISCELLANEOUS,
                       miscellaneous_industries, next)
            /\ notes_printed' = notes_printed
       ELSE /\ notes_printed' =
                   IF miscellaneous_industries # <<>> /\ script # "ev_var_outlier"
                   THEN Append(notes_printed, Len(miscellaneous_industries))
                   ELSE notes_printed
            /\ pc' = next
            /\ UNCHANGED <<mcap_bounds, var_bounds, reports, calls, errors, failure>>
    /\ UNCHANGED <<input, process, TOP_N_DISPLAY, grouping, warnings, Note,
                   actionable_outliers, global_stats, top_table, bottom_table,
                   unactionable_printed>>
    /\ UNCHANGED scraping

\* df['Note'] = df.apply(get_outlier_note, ...): get_outlier_note reads the
\* SectorName of every row
Classify ==
    /\ pc = "classify"
    /\ IF "SectorName" \in missing_columns /\ df # <<>>
       THEN /\ Raise("KeyError")
            /\ Note' = Note
       ELSE /\ Note' = [sym \in Symbols(df) |->
                   LET row == CHOOSE r \in {df[i] : i \in 1..Len(df)} : r.Symbol = sym
                   IN  GetOutlierNoteDual(row, mcap_bounds, var_bounds, small_industries)]
            /\ pc' = "consolidate"
            /\ UNCHANGED <<errors, failure>>
    /\ UNCHANGED <<input, process, TOP_N_DISPLAY, grouping, mcap_bounds, var_bounds, calls,
                   reports, notes_printed, warnings, actionable_outliers, global_stats,
                   top_table, bottom_table, unactionable_printed>>
    /\ UNCHANGED scraping

\* the Actionable Outliers table; the slices select the AskPrice column
Consolidate ==
    /\ pc = "consolidate"
    /\ IF "AskPrice" \in missing_columns
       THEN /\ Raise("KeyError")
            /\ actionable_outliers' = actionable_outliers
       ELSE /\ actionable_outliers' = ActionableOutliers(df, Note, TOP_N_DISPLAY)
            /\ pc' = "report"
            /\ UNCHANGED <<errors, failure>>
    /\ UNCHANGED <<input, process, TOP_N_DISPLAY, grouping, mcap_bounds, var_bounds, calls,
                   reports, notes_printed, warnings, Note, global_stats, top_table,
                   bottom_table, unactionable_printed>>
    /\ UNCHANGED scraping

\* the global statistics, the top-N and bottom-N tables and the listing of the
\* close-only symbols; the rows of the tables of the single-metric scripts are
\* noted and printed column by column
Report ==
    /\ pc = "report"
    /\ global_stats' = IF df = <<>> THEN <<>> ELSE <<Fences(Column(df, "MCapEV"))>>
    /\ IF script # "ev_var_outlier" /\ df # <<>>
                                    /\ RowColumns(script) \cap missing_columns # {}
       THEN /\ Raise("KeyError")
            /\ UNCHANGED <<top_table, bottom_table, unactionable_printed>>
       ELSE /\ top_table' = RankTable(script, df, FALSE, TOP_N_DISPLAY, mcap_bounds,
                                      small_industries, Note)
            /\ bottom_table' = RankTable(script, df, TRUE, TOP_N_DISPLAY, mcap_bounds,
                                         small_industries, Note)
            /\ unactionable_printed' = unactionable_symbols_df
            /\ pc' = "done"
            /\ UNCHANGED <<errors, failure>>
    /\ UNCHANGED <<input, process, TOP_N_DISPLAY, grouping, mcap_bounds, var_bounds, calls,
                   reports, notes_printed, warnings, Note, actionable_outliers>>
    /\ UNCHANGED scraping

\* what a finished call leaves on the output, with the input it was given
Printed ==
    [filename |-> filename, rows |-> rows, missing_columns |-> missing_columns,
     file_exists |-> file_exists, TOP_N_DISPLAY |-> TOP_N_DISPLAY,
     mcap_bounds |-> mcap_bounds, var_bounds |-> var_bounds, reports |-> reports,
     notes_printed |-> notes_printed, warnings |-> warnings, errors |-> errors,
     Note |-> Note, actionable_outliers |-> actionable_outliers,
     global_stats |-> global_stats, top_table |-> top_table,
     bottom_table |-> bottom_table, unactionable_printed |-> unactionable_printed]

\* the function has returned and the process calls it again on its next input
Restart ==
    /\ pc \in {"done", "failed"}
    /\ entry = "call"
    /\ pending # <<>>
    /\ previous' = <<Printed>> \o previous
    /\ filename' = Head(pending).filename
    /\ rows' = Head(pending).rows
    /\ missing_columns' = Head(pending).missing_columns
    /\ file_exists' = Head(pending).file_exists
    /\ pending' = Tail(pending)
    /\ pc' = "start"
    /\ UNCHANGED <<script, entry, open_fails, sys_stdout, report_file, closed_writes,
                   TOP_N_DISPLAY, grouping, output>>
    /\ UNCHANGED scraping

\* sys.stdout = original_stdout with the assignment left out
LeftRedirected(current) == current

\* sys.stdout = original_stdout
OriginalStdout(current) == "original"

\* with open(output_filename, 'w') as f: sys.stdout = f (ev_outlier.py) or
\* Tee(f, original_stdout) (ev_var_outlier.py), then the two heading lines; when
\* the file cannot be opened the except clause restores sys.stdout and prints
MainOpen ==
    /\ pc = "main"
    /\ IF open_fails
       THEN /\ sys_stdout' = OriginalStdout(sys_stdout)
            /\ report_file' = report_file
            /\ closed_writes' = closed_writes
            /\ pc' = "exit"
       ELSE /\ sys_stdout' = IF script = "ev_var_outlier" THEN "tee" ELSE "file"
            /\ report_file' = "open"
            /\ closed_writes' = closed_writes
            /\ pc' = "start"
    /\ UNCHANGED <<input, entry, open_fails, pending, previous, TOP_N_DISPLAY, grouping,
                   output>>
    /\ UNCHANGED scraping

\* the function has returned: the with block is left and closes the file
MainWithExit ==
    /\ pc \in {"done", "failed"}
    /\ entry = "main"
    /\ report_file' = "closed"
    /\ pc' = "closed"
    /\ UNCHANGED <<input, entry, open_fails, pending, previous, sys_stdout, closed_writes,
                   TOP_N_DISPLAY, grouping, output>>
    /\ UNCHANGED scraping

\* sys.stdout = original_stdout, then print("Analysis complete. ...")
MainFinish ==
    /\ pc = "closed"
    /\ sys_stdout' = OriginalStdout(sys_stdout)
    /\ closed_writes' = IF sys_stdout' # "original" /\ report_file = "closed"
                        THEN closed_writes + 1 ELSE closed_writes
    /\ pc' = "exit"
    /\ UNCHANGED <<input, entry, open_fails, pending, previous, report_file,
                   TOP_N_DISPLAY, grouping, output>>
    /\ UNCHANGED scraping

Next ==
    \/ Load
    \/ AnalyzeLargeIndustry
    \/ AggregateSector
    \/ AnalyzeMisc
    \/ Classify
    \/ Consolidate
    \/ Report
    \/ Restart
    \/ MainOpen
    \/ MainWithExit
    \/ MainFinish

Spec == Init /\ [][Next]_vars

----------------------------------------------------------------------------
(* evscrape.py: scrape_from_csv *)

MaxScrapeRows == 2    \* most rows of a file given to scrape_from_csv

Currency == <<"C","u","r","r","e","n","c","y">>
ExchangeTradedFund ==
    <<"E","x","c","h","a","n","g","e"," ","T","r","a","d","e","d"," ","F","u","n","d">>
NOT_AVAILABLE == <<"N","o","t"," ","A","v","a","i","l","a","b","l","e">>

\* the symbols of the files: two characters ending in "a", a class share ending
\* in "b", and a symbol ending in a capital "A"
Xa == <<"X","a">>
BRKb == <<"B","R","K","b">>
RDSA == <<"R","D","S","A">>

RECURSIVE Gcd(_, _)
Gcd(a, b) == IF b = 0 THEN a ELSE Gcd(b, a % b)

\* the quotient n / d of a non-negative n and a positive d, in lowest terms
Fraction(n, d) == Let(Gcd(n, d), LAMBDA g : [num |-> n \div g, den |-> d \div g])

\* a cell is <<>> when it holds no value (None, NaN) and <<v>> when it holds v.
\* The rows a file can hold: a row filled by an earlier run or a row still empty,
\* of sector "Currency", of industry "Exchange Traded Fund" or of neither
CsvRowChoices ==
    {[Symbol |-> s, SectorName |-> c[1], IndustryName |-> c[2],
      EnterpriseValue |-> IF filled THEN <<7>> ELSE <<>>,
      MarketCap |-> IF filled THEN <<5>> ELSE <<>>,
      NextEarningsDate |-> IF filled THEN <<NOT_AVAILABLE>> ELSE <<>>,
      NextDividendDate |-> IF filled THEN <<NOT_AVAILABLE>> ELSE <<>>,
      MCapEVRatio |-> IF filled THEN <<Fraction(500, 7)>> ELSE <<>>] :
        s \in {Xa, BRKb, RDSA},
        c \in {<<Foo, Banks>>, <<Currency, Banks>>, <<Foo, ExchangeTradedFund>>},
        filled \in BOOLEAN}

\* what the data service does on one request: the 404 message, an exception,
\* or an info dictionary with or without the two values
ServiceOutcomes ==
    {[kind |-> k, enterpriseValue |-> <<>>, marketCap |-> <<>>] : k \in {"404", "error"}}
    \cup
    {[kind |-> "info", enterpriseValue |-> e, marketCap |-> m] :
        e \in {<<>>, <<0 - 1>>, <<0>>, <<4>>}, m \in {<<>>, <<3>>}}

\* get_financial_data: (None, None, None, None) on a 404 and on an exception,
\* else the two values of info and the two dates
get_financial_data(outcome) ==
    IF outcome.kind \in {"404", "error"}
    THEN [enterprise_value |-> <<>>, market_cap |-> <<>>,
          next_earnings_date |-> <<>>, next_dividend_date |-> <<>>]
    ELSE [enterprise_value |-> outcome.enterpriseValue, market_cap |-> outcome.marketCap,
          next_earnings_date |-> <<NOT_AVAILABLE>>, next_dividend_date |-> <<NOT_AVAILABLE>>]

\* process_mask with the industry test left out
ProcessMaskSectorOnly(row) == ~(row.SectorName = Currency)

\* process_mask
ProcessMask(row) ==
    ~(row.SectorName = Currency \/ row.IndustryName = ExchangeTradedFund)

\* symbol_fix: BASE-A / BASE-B for a symbol of more than 2 characters that ends
\* in "a" or "b"
SymbolFix(symbol) ==
    IF Len(symbol) > 2 /\ symbol[Len(symbol)] \in {"a", "b"}
    THEN SubSeq(symbol, 1, Len(symbol) - 1) \o <<"-">> \o <<UpperChar(symbol[Len(symbol)])>>
    ELSE symbol

\* the retry taken as soon as one of the two values is missing
NeedsRetryEither(result, symbol_fix, symbol) ==
    /\ result.enterprise_value = <<>> \/ result.market_cap = <<>>
    /\ symbol_fix # symbol

\* enterprise_value is None and market_cap is None and symbol_fix != symbol
NeedsRetry(result, symbol_fix, symbol) ==
    /\ result.enterprise_value = <<>>
    /\ result.market_cap = <<>>
    /\ symbol_fix # symbol

\* the MCap/EV (%) cell computed without the test enterprise_value > 0
RatioCellUnguarded(enterprise_value, market_cap) ==
    IF enterprise_value # <<>> /\ market_cap # <<>>
    THEN << [num |-> market_cap[1] * 100, den |-> enterprise_value[1]] >>
    ELSE <<>>

\* the MCap/EV (%) cell: (market_cap / enterprise_value) * 100, or NaN
RatioCell(enterprise_value, market_cap) ==
    IF enterprise_value # <<>> /\ market_cap # <<>> /\ enterprise_value[1] > 0
    THEN << Fraction(market_cap[1] * 100, enterprise_value[1]) >>
    ELSE <<>>

\* the row after the five df.loc[index, ...] assignments
Written(row, result) ==
    [row EXCEPT !.EnterpriseValue = result.enterprise_value,
                !.MarketCap = result.market_cap,
                !.NextEarningsDate = result.next_earnings_date,
                !.NextDividendDate = result.next_dividend_date,
                !.MCapEVRatio = RatioCell(result.enterprise_value, result.market_cap)]

\* one call of get_financial_data as the history keeps it
Lookup(i, ticker, outcome) ==
    [index |-> i, ticker |-> ticker, outcome |-> outcome,
     returned |-> get_financial_data(outcome)]

\* the analysis scripts are not running
NoAnalysis ==
    /\ script = "evscrape"
    /\ filename = <<>>
    /\ rows = <<>>
    /\ missing_columns = {}
    /\ file_exists = TRUE
    /\ entry = "call"
    /\ open_fails = FALSE
    /\ pending = <<>>
    /\ Fresh

\* before scrape_from_csv reads its file of one to MaxScrapeRows rows
InitScrape ==
    /\ \E n \in 1..MaxScrapeRows : csv_path \in [1..n -> CsvRowChoices]
    /\ scrape_df = <<>>
    /\ index = 0
    /\ lookups = <<>>
    /\ scrape_pc = "start"
    /\ output_csv = <<>>
    /\ NoAnalysis

\* pd.read_csv; the five columns are added, empty, when the file lacks them
ScrapeLoad ==
    /\ scrape_pc = "start"
    /\ scrape_df' = csv_path
    /\ index' = 1
    /\ scrape_pc' = "loop"
    /\ UNCHANGED <<csv_path, lookups, output_csv, input, process, pc, TOP_N_DISPLAY,
                   grouping, output>>

\* a row that df[process_mask] does not hold is not iterated over
ScrapeMasked ==
    /\ scrape_pc = "loop"
    /\ index <= Len(scrape_df)
    /\ ~ProcessMask(csv_path[index])
    /\ index' = index + 1
    /\ UNCHANGED <<csv_path, scrape_df, lookups, scrape_pc, output_csv, input, process,
                   pc, TOP_N_DISPLAY, grouping, output>>

\* if pd.notna(row.get('Enterprise Value')): continue
ScrapeContinue ==
    /\ scrape_pc = "loop"
    /\ index <= Len(scrape_df)
    /\ ProcessMask(csv_path[index])
    /\ csv_path[index].EnterpriseValue # <<>>
    /\ index' = index + 1
    /\ UNCHANGED <<csv_path, scrape_df, lookups, scrape_pc, output_csv, input, process,
                   pc, TOP_N_DISPLAY, grouping, output>>

\* the body of the loop for a row without an Enterprise Value: the lookup of
\* symbol_fix, the lookup of the original symbol when the first returned
\* neither value, and the assignments to the row
ScrapeRow ==
    /\ scrape_pc = "loop"
    /\ index <= Len(scrape_df)
    /\ ProcessMask(csv_path[index])
    /\ csv_path[index].EnterpriseValue = <<>>
    /\ \E first \in ServiceOutcomes : \E second \in ServiceOutcomes :
           LET symbol     == csv_path[index].Symbol
               symbol_fix == SymbolFix(symbol)
               fetched    == get_financial_data(first)
               retry      == NeedsRetry(fetched, symbol_fix, symbol)
               result     == IF retry THEN get_financial_data(second) ELSE fetched
           IN  /\ ~retry => second = first
               /\ lookups' = lookups \o <<Lookup(index, symbol_fix, first)>>
                                 \o (IF retry THEN <<Lookup(index, symbol, second)>> ELSE <<>>)
               /\ scrape_df' = [scrape_df EXCEPT ![index] = Written(scrape_df[index], result)]
    /\ index' = index + 1
    /\ UNCHANGED <<csv_path, scrape_pc, output_csv, input, process, pc, TOP_N_DISPLAY,
                   grouping, output>>

\* df.to_csv(output_filename, ...) after the loop
ScrapeSave ==
    /\ scrape_pc = "loop"
    /\ index > Len(scrape_df)
    /\ output_csv' = scrape_df
    /\ scrape_pc' = "saved"
    /\ UNCHANGED <<csv_path, scrape_df, index, lookups, input, process, pc, TOP_N_DISPLAY,
                   grouping, output>>

NextScrape ==
    \/ ScrapeLoad
    \/ ScrapeMasked
    \/ ScrapeContinue
    \/ ScrapeRow
    \/ ScrapeSave

SpecScrape == InitScrape /\ [][NextScrape]_vars

----------------------------------------------------------------------------
(* Properties of the grouping step *)

\* the grouping step of the run is over
Grouped == pc \in {"classify", "consolidate", "report", "done"}

\* the row of df that carries the symbol
RowOf(sym) == CHOOSE r \in {df[i] : i \in 1..Len(df)} : r.Symbol = sym

\* the calls of analyze_group whose frame holds the symbol
CallsHolding(sym) ==
    {k \in 1..Len(calls) : \E j \in 1..Len(calls[k].syms) : calls[k].syms[j] = sym}

\* how often the symbol occurs in the miscellaneous accumulator
TimesPooled(sym) ==
    Cardinality({j \in 1..Len(miscellaneous_industries) :
                    miscellaneous_industries[j].Symbol = sym})

\* the number of tradable rows of the industry
CountOfIndustry(industry) ==
    Cardinality({i \in 1..Len(df) : df[i].IndustryName = industry})

\* the number of tradable rows of the sector that belong to industries of
\* fewer than MINIMUM_GROUP_SIZE rows
SmallCountOfSector(sector) ==
    Cardinality({i \in 1..Len(df) :
                    /\ df[i].SectorName = sector
                    /\ CountOfIndustry(df[i].IndustryName) < MINIMUM_GROUP_SIZE})

\* the MCap/EV flags the finished run shows for the symbol: in the top and
\* bottom tables of the single-metric scripts, in the Note column of the dual one
FlagsShown(sym) ==
    IF script = "ev_var_outlier"
    THEN {IF Contains(Note[sym], MCAP_LOW) THEN "LOW"
          ELSE IF Contains(Note[sym], MCAP_HIGH) THEN "HIGH" ELSE "NORMAL"}
    ELSE {IF t.Note = LOW_NOTE THEN "LOW"
          ELSE IF t.Note = HIGH_NOTE THEN "HIGH" ELSE "NORMAL" :
          t \in {u \in {top_table[i] : i \in 1..Len(top_table)}
                         \cup {bottom_table[i] : i \in 1..Len(bottom_table)} :
                    u.Symbol = sym}}

\* C1: for every tradable instrument, every group name under which the grouping
\* step analyzed a frame holding it (its industry, the aggregate of its sector or
\* the miscellaneous group) is the name get_outlier_note resolves for it from its
\* industry, its sector and the small-industry list.
C1_GroupNamesAgree ==
    Grouped =>
        \A i \in 1..Len(df) :
            \A k \in CallsHolding(df[i].Symbol) :
                calls[k].name =
                    GroupNameOf(df[i].IndustryName, df[i].SectorName, small_industries)

\* C2: once grouping is over, every tradable instrument is in exactly one of the
\* frames formed for bound computation: the frame of its industry when the
\* industry has at least 5 rows, else the aggregate of its sector when the small
\* industries of the sector have at least 5 rows, else the miscellaneous
\* accumulator; it is in no second frame and occurs once in its frame.
C2_ExactlyOneGroup ==
    Grouped =>
        \A i \in 1..Len(df) :
            LET sym        == df[i].Symbol
                inIndustry == {k \in CallsHolding(sym) : calls[k].kind = "industry"}
                inSector   == {k \in CallsHolding(sym) : calls[k].kind = "sector"}
            IN  /\ Cardinality(inIndustry) + Cardinality(inSector) + TimesPooled(sym) = 1
                /\ \A k \in inIndustry \cup inSector :
                       Cardinality({j \in 1..Len(calls[k].syms) : calls[k].syms[j] = sym}) = 1
                /\ IF CountOfIndustry(df[i].IndustryName) >= MINIMUM_GROUP_SIZE
                   THEN \E k \in inIndustry : calls[k].key = df[i].IndustryName
                   ELSE IF SmallCountOfSector(df[i].SectorName) >= MINIMUM_GROUP_SIZE
                   THEN \E k \in inSector : calls[k].key = df[i].SectorName
                   ELSE TimesPooled(sym) = 1

\* a finished run with an industry frame, a sector aggregate and a non-empty
\* miscellaneous accumulator
C2_Witness ==
    /\ pc = "done"
    /\ \E k \in 1..Len(calls) : calls[k].kind = "industry"
    /\ \E k \in 1..Len(calls) : calls[k].kind = "sector"
    /\ miscellaneous_industries # <<>>

\* C3: when the small-industry rows of sector "Undefined" number at least 5,
\* their aggregate is analyzed, and its bounds stored, under the name
\* "AGGREGATED MISCELLANEOUS" and not under "AGGREGATED UNDEFINED INDUSTRIES".
C3_UndefinedStoredAsMiscellaneous ==
    /\ \A k \in 1..Len(calls) :
           calls[k].kind = "sector" /\ calls[k].key = Undefined =>
               calls[k].name = AGGREGATED_MISCELLANEOUS
    /\ AggregatedName(Undefined) \notin DOMAIN mcap_bounds

\* C4: in a finished run, for every analyzed group (at least 5 rows) with
\* non-zero IQR, a member is shown LOW exactly when its ratio is below the
\* group's lower bound, HIGH exactly when it is above the upper bound, and
\* within normal range otherwise.
C4_FlaggedExactlyOutsideBounds ==
    pc = "done" =>
        \A k \in 1..Len(calls) :
            calls[k].mcap # <<>> =>
                \A j \in 1..Len(calls[k].syms) :
                    LET sym   == calls[k].syms[j]
                        ratio == RowOf(sym).MCapEV
                        b     == calls[k].mcap[1]
                    IN  FlagsShown(sym) \subseteq
                            {IF 8 * ratio < b.lower THEN "LOW"
                             ELSE IF 8 * ratio > b.upper THEN "HIGH" ELSE "NORMAL"}

\* C5: every key of a bounds mapping was written by a call on at least 5 rows;
\* no industry of fewer than 5 tradable rows is analyzed under its own name, its
\* rows only inside a sector aggregate or the miscellaneous group; and
\* analyze_group applied to the rows of such an industry changes no bounds and
\* prints nothing.
C5_NoBoundsBelowMinimum ==
    /\ \A name \in DOMAIN mcap_bounds \cup DOMAIN var_bounds :
           /\ \E k \in 1..Len(calls) : calls[k].name = name
           /\ \A k \in 1..Len(calls) :
                  calls[k].name = name => Len(calls[k].syms) >= MINIMUM_GROUP_SIZE
    /\ \A k \in 1..Len(calls) :
           /\ Len(calls[k].syms) >= MINIMUM_GROUP_SIZE
           /\ calls[k].kind = "industry" =>
                  CountOfIndustry(calls[k].key) >= MINIMUM_GROUP_SIZE
    /\ \A i \in 1..Len(df) :
           CountOfIndustry(df[i].IndustryName) < MINIMUM_GROUP_SIZE =>
               /\ df[i].IndustryName \notin DOMAIN mcap_bounds \cup DOMAIN var_bounds
               /\ \A k \in 1..Len(calls) : calls[k].name # df[i].IndustryName
               /\ AnalyzeGroup(df[i].IndustryName, RowsOfIndustry(df, df[i].IndustryName),
                               mcap_bounds, small_industries)
                      = [bounds |-> mcap_bounds, printed |-> <<>>]
               /\ AnalyzeGroupDual(df[i].IndustryName,
                                   RowsOfIndustry(df, df[i].IndustryName),
                                   mcap_bounds, var_bounds)
                      = [mcap |-> mcap_bounds, var |-> var_bounds]

\* a finished run that stored bounds and holds an industry of fewer than 5 rows
\* whose ratios have a non-zero IQR
C5_Witness ==
    /\ pc = "done"
    /\ DOMAIN mcap_bounds # {}
    /\ \E i \in 1..Len(df) :
           /\ CountOfIndustry(df[i].IndustryName) < MINIMUM_GROUP_SIZE
           /\ Fences(Column(RowsOfIndustry(df, df[i].IndustryName), "MCapEV")).IQR > 0
           /\ df[i].IndustryName \notin DOMAIN mcap_bounds

----------------------------------------------------------------------------
(* Properties of the bounds *)

\* the k-th smallest of the values
KthSmallest(values, k) ==
    CHOOSE v \in {values[i] : i \in 1..Len(values)} :
        /\ Cardinality({i \in 1..Len(values) : values[i] < v}) < k
        /\ k <= Cardinality({i \in 1..Len(values) : values[i] <= v})

\* four times the percentile 25 * num of the values: the order statistic at
\* position (n - 1) * num / 4, counted from 0, interpolated linearly towards the
\* next one by the fractional part of the position
Percentile4(values, num) ==
    LET whole == ((Len(values) - 1) * num) \div 4
        part  == ((Len(values) - 1) * num) % 4
    IN  IF part = 0 THEN 4 * KthSmallest(values, whole + 1)
        ELSE (4 - part) * KthSmallest(values, whole + 1)
                 + part * KthSmallest(values, whole + 2)

\* what analyze_group is to store for the values, bounds times 8: nothing when
\* the IQR is zero
ExpectedBounds(values) ==
    LET Q1  == Percentile4(values, 1)
        Q3  == Percentile4(values, 3)
        IQR == Q3 - Q1
    IN  IF IQR > 0
        THEN << [lower |-> 2 * Q1 - 3 * IQR, upper |-> 2 * Q3 + 3 * IQR] >>
        ELSE <<>>

\* the column of the rows a call analyzed
ValuesOf(call, col) == [j \in 1..Len(call.syms) |-> RowOf(call.syms[j])[col]]

\* the input is the single group with ratios 1, 2, 3, 4, 100
IsExample == pc # "start" /\ Column(rows, "MCapEV") = ExampleValues

\* C6: for every analyzed group (at least 5 values) the bounds stored are
\* lower = Q1 - 1.5*IQR and upper = Q3 + 1.5*IQR when IQR > 0, with Q1 and Q3 the
\* 25th and 75th percentiles by linear interpolation between order statistics;
\* for the values 1, 2, 3, 4, 100 the quartiles are 2 and 4, the bounds are
\* [-1, 7], and the finished run shows 100 as HIGH and the other four as within
\* normal range.
C6_BoundsAreTukeyFences ==
    /\ \A k \in 1..Len(calls) :
           /\ calls[k].mcap = ExpectedBounds(ValuesOf(calls[k], "MCapEV"))
           /\ script = "ev_var_outlier" =>
                  calls[k].var = ExpectedBounds(ValuesOf(calls[k], "VaR_to_Ask_Ratio"))
    /\ IsExample /\ calls # <<>> =>
           /\ Fences(ExampleValues).Q1 = 4 * 2
           /\ Fences(ExampleValues).Q3 = 4 * 4
           /\ Fences(ExampleValues).IQR = 4 * 2
           /\ calls[1].mcap = << [lower |-> 8 * (0 - 1), upper |-> 8 * 7] >>
           /\ mcap_bounds = (Banks :> [lower |-> 8 * (0 - 1), upper |-> 8 * 7])
    /\ IsExample /\ pc = "done" =>
           /\ Len(top_table) = 5
           /\ \A i \in 1..Len(top_table) :
                  top_table[i].Note =
                      IF top_table[i].MCapEV = 100 THEN HIGH_NOTE ELSE NORMAL_NOTE
           /\ \A i \in 1..Len(bottom_table) :
                  bottom_table[i].Note =
                      IF bottom_table[i].MCapEV = 100 THEN HIGH_NOTE ELSE NORMAL_NOTE

\* the finished run on the values 1, 2, 3, 4, 100, with 100 shown as HIGH
C6_Witness ==
    /\ pc = "done"
    /\ IsExample
    /\ mcap_bounds = (Banks :> [lower |-> -8, upper |-> 56])
    /\ \E i \in 1..Len(top_table) :
           top_table[i].MCapEV = 100 /\ top_table[i].Note = HIGH_NOTE

\* C7: in a finished run, a group analyzed with a zero IQR of the MCap/EV ratio
\* has no MCap/EV bounds stored under its name, the run went on to its end, and
\* none of the group's instruments is shown LOW or HIGH for that ratio.
C7_ZeroIqrNeverFlagged ==
    pc = "done" =>
        \A k \in 1..Len(calls) :
            ExpectedBounds(ValuesOf(calls[k], "MCapEV")) = <<>> =>
                /\ calls[k].mcap = <<>>
                /\ calls[k].name \notin DOMAIN mcap_bounds
                /\ \A j \in 1..Len(calls[k].syms) :
                       FlagsShown(calls[k].syms[j]) \subseteq {"NORMAL"}

\* the rows of the small industries whose sector has fewer than 5 such rows
PoolExpected ==
    {df[i].Symbol : i \in {i \in 1..Len(df) :
        /\ CountOfIndustry(df[i].IndustryName) < MINIMUM_GROUP_SIZE
        /\ SmallCountOfSector(df[i].SectorName) < MINIMUM_GROUP_SIZE}}

\* the calls of analyze_group under the name "AGGREGATED MISCELLANEOUS"
MiscCalls == {k \in 1..Len(calls) : calls[k].name = AGGREGATED_MISCELLANEOUS}

\* the pool is the miscellaneous accumulator; a pool of at least 5 is analyzed
\* once as "AGGREGATED MISCELLANEOUS"; a smaller pool is not analyzed and gets no
\* bounds
PoolFormed ==
    /\ Symbols(miscellaneous_industries) = PoolExpected
    /\ Len(miscellaneous_industries) = Cardinality(PoolExpected)
    /\ IF Len(miscellaneous_industries) >= MINIMUM_GROUP_SIZE
       THEN /\ Cardinality(MiscCalls) = 1
            /\ \A k \in MiscCalls :
                   /\ calls[k].kind = "misc"
                   /\ calls[k].syms = Column(miscellaneous_industries, "Symbol")
            /\ notes_printed = <<>>
       ELSE /\ MiscCalls = {}
            /\ AGGREGATED_MISCELLANEOUS \notin DOMAIN mcap_bounds \cup DOMAIN var_bounds

----------------------------------------------------------------------------
(* Properties of the dual-metric notes and of the Actionable Outliers table *)

\* the Note column of the dual-metric run is filled
Classified == script = "ev_var_outlier" /\ pc \in {"consolidate", "report", "done"}

\* the flag of a ratio against the bounds its group has in the mapping: empty
\* when the group has none or the ratio is within them
FlagOf(row, ratio, bounds_dict, low, high) ==
    LET g == GroupNameOf(row.IndustryName, row.SectorName, small_industries)
    IN  IF g \notin DOMAIN bounds_dict THEN <<>>
        ELSE IF 8 * ratio < bounds_dict[g].lower THEN low
        ELSE IF 8 * ratio > bounds_dict[g].upper THEN high
        ELSE <<>>

McapFlag(row) == FlagOf(row, row.MCapEV, mcap_bounds, MCAP_LOW, MCAP_HIGH)
VarFlag(row) == FlagOf(row, row.VaR_to_Ask_Ratio, var_bounds, VAR_LOW, VAR_HIGH)

\* C9: in dual-metric mode the note of an instrument comes from two independent
\* checks against its group's MCap/EV bounds and VaR bounds: both out of bounds
\* gives "Dual Outlier: <MCap/EV flag>, <VaR flag>"; only MCap/EV out of bounds
\* gives "MCap/EV Outlier: <MCap/EV flag>"; only VaR out of bounds, or neither,
\* gives the empty note.
C9_DualNoteComposition ==
    Classified =>
        /\ DOMAIN Note = Symbols(df)
        /\ \A i \in 1..Len(df) :
               Note[df[i].Symbol] =
                   IF McapFlag(df[i]) # <<>> /\ VarFlag(df[i]) # <<>>
                   THEN DUAL_PREFIX \o McapFlag(df[i]) \o COMMA \o VarFlag(df[i])
                   ELSE IF McapFlag(df[i]) # <<>>
                   THEN MCAP_PREFIX \o McapFlag(df[i])
                   ELSE <<>>

\* a dual-metric run with a dual outlier, an MCap/EV-only outlier, and an
\* instrument outside its VaR bounds only, whose note is empty
C9_Witness ==
    /\ Classified
    /\ \E i \in 1..Len(df) :
           McapFlag(df[i]) # <<>> /\ VarFlag(df[i]) # <<>>
               /\ Contains(Note[df[i].Symbol], DUAL_PATTERN)
    /\ \E i \in 1..Len(df) :
           McapFlag(df[i]) # <<>> /\ VarFlag(df[i]) = <<>>
               /\ Contains(Note[df[i].Symbol], MCAP_PATTERN)
    /\ \E i \in 1..Len(df) :
           McapFlag(df[i]) = <<>> /\ VarFlag(df[i]) # <<>> /\ Note[df[i].Symbol] = <<>>

\* the position of row i of df in the order of the VaR ratio, ties in file order
VarRankAscending(i) ==
    Cardinality({j \in 1..Len(df) :
        \/ df[j].VaR_to_Ask_Ratio < df[i].VaR_to_Ask_Ratio
        \/ df[j].VaR_to_Ask_Ratio = df[i].VaR_to_Ask_Ratio /\ j < i})

VarRankDescending(i) ==
    Cardinality({j \in 1..Len(df) :
        \/ df[j].VaR_to_Ask_Ratio > df[i].VaR_to_Ask_Ratio
        \/ df[j].VaR_to_Ask_Ratio = df[i].VaR_to_Ask_Ratio /\ j < i})

InBottomSlice(i) == VarRankAscending(i) < TOP_N_DISPLAY
InTopSlice(i) == VarRankDescending(i) < TOP_N_DISPLAY

IsDualOutlier(i) == Contains(Note[df[i].Symbol], DUAL_PATTERN)
IsMcapOutlier(i) == Contains(Note[df[i].Symbol], MCAP_PATTERN)

\* the part of the concatenation in which row i of df first occurs: 1 the dual
\* outliers, 2 the bottom-N slice, 3 the top-N slice, 0 none
PartOf(i) ==
    IF IsDualOutlier(i) THEN 1
    ELSE IF IsMcapOutlier(i) /\ InBottomSlice(i) THEN 2
    ELSE IF IsMcapOutlier(i) /\ InTopSlice(i) THEN 3
    ELSE 0

\* the note row i of df carries in the table
TableNote(i) ==
    CASE PartOf(i) = 2 ->
             Note[df[i].Symbol] \o IN_BOTTOM \o Digits(TOP_N_DISPLAY) \o VAR_SUFFIX
      [] PartOf(i) = 3 ->
             Note[df[i].Symbol] \o IN_TOP \o Digits(TOP_N_DISPLAY) \o VAR_SUFFIX
      [] OTHER -> Note[df[i].Symbol]

\* the position in df of the row of the table
IndexInDf(t) == CHOOSE i \in 1..Len(df) : df[i].Symbol = t.Symbol

\* C10: the Actionable Outliers table holds, once each, the dual outliers, the
\* MCap/EV-only outliers of the bottom-N VaR slice tagged "in Bottom N VaR", and
\* the MCap/EV-only outliers of the top-N VaR slice that are not in the bottom-N
\* slice tagged "in Top N VaR", and nothing else; it is sorted by the MCap/EV
\* ratio in descending order.
C10_ActionableOutliers ==
    Classified /\ pc # "consolidate" =>
        /\ \A i \in 1..Len(df) :
               Cardinality({a \in 1..Len(actionable_outliers) :
                               actionable_outliers[a].Symbol = df[i].Symbol})
                   = IF PartOf(i) = 0 THEN 0 ELSE 1
        /\ \A a \in 1..Len(actionable_outliers) :
               /\ actionable_outliers[a].Symbol \in Symbols(df)
               /\ actionable_outliers[a].Note = TableNote(IndexInDf(actionable_outliers[a]))
               /\ actionable_outliers[a].MCapEV = df[IndexInDf(actionable_outliers[a])].MCapEV
        /\ \A a, b \in 1..Len(actionable_outliers) :
               a < b => actionable_outliers[a].MCapEV >= actionable_outliers[b].MCapEV

\* a finished run whose table holds a dual outlier after an MCap/EV-only outlier
\* of greater ratio that comes from the bottom-N slice
C10_Witness ==
    /\ Classified /\ pc = "done"
    /\ Len(actionable_outliers) >= 2
    /\ \E a, b \in 1..Len(actionable_outliers) :
           /\ a < b
           /\ PartOf(IndexInDf(actionable_outliers[a])) = 2
           /\ PartOf(IndexInDf(actionable_outliers[b])) = 1
           /\ actionable_outliers[a].MCapEV > actionable_outliers[b].MCapEV

----------------------------------------------------------------------------
(* Properties of the actionable table against the bounds of the groups *)

\* the bounds stored by the calls of analyze_group whose frame holds the symbol,
\* for the MCap/EV ratio and for the VaR ratio
McapBoundsOfGroup(sym) ==
    {calls[k].mcap[1] : k \in {c \in CallsHolding(sym) : calls[c].mcap # <<>>}}

VarBoundsOfGroup(sym) ==
    {calls[k].var[1] : k \in {c \in CallsHolding(sym) : calls[c].var # <<>>}}

\* the ratio lies outside one of the bounds
OutOf(ratio, bounds) == \E b \in bounds : 8 * ratio < b.lower \/ 8 * ratio > b.upper

\* C11: every instrument of the Actionable Outliers table is outside the MCap/EV
\* bounds of the group it was analyzed in, and is also outside that group's VaR
\* bounds or among the N lowest or N highest VaR ratios of the tradable
\* instruments; an instrument outside the VaR bounds only, or outside neither,
\* is not in the table.
C11_ActionableOutOfGroupBounds ==
    Classified /\ pc # "consolidate" =>
        \A a \in 1..Len(actionable_outliers) :
            LET i   == IndexInDf(actionable_outliers[a])
                sym == df[i].Symbol
            IN  /\ OutOf(df[i].MCapEV, McapBoundsOfGroup(sym))
                /\ \/ OutOf(df[i].VaR_to_Ask_Ratio, VarBoundsOfGroup(sym))
                   \/ InBottomSlice(i)
                   \/ InTopSlice(i)

----------------------------------------------------------------------------
(* Properties of the close-only instruments *)

\* the run is past its loading step and has not failed
Analyzing == pc \in {"group", "classify", "consolidate", "report", "done"}

\* the symbols of the rows of the input file with TradeMode 3
CloseOnlySymbols ==
    {rows[i].Symbol : i \in {j \in 1..Len(rows) : rows[j].TradeMode = 3}}

\* the rows of the input file without those of TradeMode 3
OpenRows == LET Open(r) == r.TradeMode # 3 IN SelectSeq(rows, Open)

\* the symbols of the tables printed
TableSymbols ==
    Symbols(top_table) \cup Symbols(bottom_table) \cup Symbols(actionable_outliers)

\* C12: an instrument with TradeMode 3 takes no part in the analysis: the
\* industry sizes are those of the other rows, it is in no frame analyzed and
\* not in the miscellaneous accumulator, the global quartiles and bounds are
\* those of the other rows, it has no note, and it is in no top-N, bottom-N or
\* actionable table.
C12_CloseOnlyOutsideAnalysis ==
    Analyzing =>
        /\ Symbols(df) \cap CloseOnlySymbols = {}
        /\ small_industries = SmallIndustries(OpenRows)
        /\ \A k \in 1..Len(calls) :
               /\ {calls[k].syms[j] : j \in 1..Len(calls[k].syms)} \cap CloseOnlySymbols = {}
               /\ calls[k].kind = "industry" => calls[k].key \in LargeIndustries(OpenRows)
        /\ Symbols(miscellaneous_industries) \cap CloseOnlySymbols = {}
        /\ global_stats # <<>> => global_stats[1] = Fences(Column(OpenRows, "MCapEV"))
        /\ DOMAIN Note \cap CloseOnlySymbols = {}
        /\ TableSymbols \cap CloseOnlySymbols = {}

\* how often the symbol is in the listing of the close-only symbols
TimesListed(sym) ==
    Cardinality({j \in 1..Len(unactionable_printed) : unactionable_printed[j].Symbol = sym})

\* C13: a finished run of ev_outlier.py or ev_var_outlier.py has listed every
\* instrument of the input with TradeMode 3 exactly once among the unactionable
\* symbols, whatever the text of its MCap/EV cell (a number, nothing, "-inf")
\* and whether or not an outlier was found.
C13_CloseOnlyListedOnce ==
    pc = "done" /\ script # "evoutlier" =>
        \A sym \in CloseOnlySymbols : TimesListed(sym) = 1

----------------------------------------------------------------------------
(* Properties of the N selected from the filename *)

\* the function has read its filename and started on the file
Started == pc \in {"group", "classify", "consolidate", "report", "done", "failed"}

\* the N each filename of the inputs is to select: 50 for a name with "Stocks"
\* in any case (also next to "CFD"), else 40 for one with "CFD" (also next to
\* "Futures"), else 5 for one with "Futures", else 20
ExpectedN(name) ==
    CASE name = StocksCsv -> 50
      [] name = CfdStocksCsv -> 50
      [] name = CfdCsv -> 40
      [] name = FuturesCfdCsv -> 40
      [] name = LowerFuturesCsv -> 5
      [] name = FuturesCsv -> 5
      [] name = OtherCsv -> 20

\* C14: the N a run uses is selected by its filename: Stocks_2024.csv and
\* CFD_stocks.csv select 50, cfd_data.csv and Futures_cfd.csv select 40,
\* futures.csv and Futures.csv select 5, and other.csv, which holds none of the
\* three words, selects 20.
C14_TopNFromFilename == Started => TOP_N_DISPLAY = ExpectedN(filename)

\* the first call of a process uses the N of the table above
FirstCallTopN == Started /\ previous = <<>> => TOP_N_DISPLAY = ExpectedN(filename)

----------------------------------------------------------------------------
(* Properties of repeated calls *)

\* the function has returned
Returned == pc \in {"done", "failed"}

\* the previous call of the process was given the same file
SameInput ==
    /\ previous # <<>>
    /\ previous[1].filename = filename
    /\ previous[1].rows = rows
    /\ previous[1].missing_columns = missing_columns
    /\ previous[1].file_exists = file_exists

\* C15: a second call on the same unchanged file prints what the first call
\* printed: the same bounds, the same note for every instrument, the same
\* top-N, bottom-N and actionable rows (and the same N, reports, notes,
\* warnings, global statistics and close-only listing).
C15_SecondRunSameOutput ==
    Returned /\ SameInput =>
        /\ mcap_bounds = previous[1].mcap_bounds
        /\ var_bounds = previous[1].var_bounds
        /\ Note = previous[1].Note
        /\ top_table = previous[1].top_table
        /\ bottom_table = previous[1].bottom_table
        /\ actionable_outliers = previous[1].actionable_outliers
        /\ TOP_N_DISPLAY = previous[1].TOP_N_DISPLAY
        /\ reports = previous[1].reports
        /\ notes_printed = previous[1].notes_printed
        /\ warnings = previous[1].warnings
        /\ errors = previous[1].errors
        /\ global_stats = previous[1].global_stats
        /\ unactionable_printed = previous[1].unactionable_printed

\* the second of two finished dual-metric calls on the same file, with bounds, a
\* pool too small to analyze, notes and a non-empty actionable table
C15_Witness ==
    /\ pc = "done"
    /\ SameInput
    /\ script = "ev_var_outlier"
    /\ DOMAIN mcap_bounds # {}
    /\ miscellaneous_industries # <<>>
    /\ actionable_outliers # <<>>
    /\ top_table # <<>>

\* C16: the bounds mappings are empty when the grouping of a call starts, and
\* every entry they hold at any later point of the call is the one computed by a
\* call of analyze_group of this run from the rows of this run's file, so that
\* classification consults no entry of an earlier run.
C16_BoundsOfThisRunOnly ==
    Started =>
        /\ calls = <<>> => mcap_bounds = EmptyMap /\ var_bounds = EmptyMap
        /\ Symbols(df) \subseteq Symbols(rows)
        /\ \A name \in DOMAIN mcap_bounds :
               \E k \in 1..Len(calls) :
                   /\ calls[k].name = name
                   /\ ExpectedBounds(ValuesOf(calls[k], "MCapEV")) = <<mcap_bounds[name]>>
        /\ \A name \in DOMAIN var_bounds :
               \E k \in 1..Len(calls) :
                   /\ calls[k].name = name
                   /\ ExpectedBounds(ValuesOf(calls[k], "VaR_to_Ask_Ratio"))
                          = <<var_bounds[name]>>

\* a finished second call that stored no bounds, on a file of the industry for
\* which the first call, on another file, stored some
C16_Witness ==
    /\ pc = "done"
    /\ previous # <<>>
    /\ Banks \in DOMAIN previous[1].mcap_bounds
    /\ previous[1].rows # rows
    /\ \E k \in 1..Len(calls) : calls[k].name = Banks
    /\ mcap_bounds = EmptyMap

----------------------------------------------------------------------------
(* Properties of the per-group reports *)

\* the symbols of a call's frame whose MCap/EV ratio lies outside the bounds
\* computed from the frame
OutsideOwnBounds(call) ==
    {call.syms[j] : j \in {i \in 1..Len(call.syms) :
        OutOf(RowOf(call.syms[i]).MCapEV, {b[1] : b \in {ExpectedBounds(ValuesOf(call, "MCapEV"))} \ {<<>>}})}}

\* the call is to print a report: at least 5 rows, IQR > 0, a row outside
ReportDue(call) ==
    /\ Len(call.syms) >= MINIMUM_GROUP_SIZE
    /\ ExpectedBounds(ValuesOf(call, "MCapEV")) # <<>>
    /\ OutsideOwnBounds(call) # {}

\* C17: in single-metric mode the reports printed are, in the order of the
\* calls, one for each group of at least 5 instruments with IQR > 0 and an
\* instrument outside its bounds, listing the instruments outside; every other
\* group prints nothing, and its bounds are stored all the same when IQR > 0;
\* analyze_group on fewer than 5 rows prints nothing.
C17_ReportIffOutlier ==
    script # "ev_var_outlier" /\ RowColumns(script) \cap missing_columns = {} =>
        /\ Len(reports) = Cardinality({k \in 1..Len(calls) : ReportDue(calls[k])})
        /\ \A k \in 1..Len(calls) :
               /\ ReportDue(calls[k]) =>
                      \E r \in 1..Len(reports) :
                          /\ reports[r].group = Upper(calls[k].name)
                          /\ reports[r].total = Len(calls[k].syms)
                          /\ Symbols(reports[r].rows) = OutsideOwnBounds(calls[k])
                          /\ r = Cardinality({c \in 1..k : ReportDue(calls[c])})
               /\ calls[k].mcap = ExpectedBounds(ValuesOf(calls[k], "MCapEV"))
               /\ calls[k].mcap # <<>> => calls[k].name \in DOMAIN mcap_bounds
        /\ \A i \in 1..Len(df) :
               CountOfIndustry(df[i].IndustryName) < MINIMUM_GROUP_SIZE =>
                   AnalyzeGroup(df[i].IndustryName, RowsOfIndustry(df, df[i].IndustryName),
                                EmptyMap, small_industries).printed = <<>>

\* a finished single-metric run with a group that printed a report, a group
\* that stored bounds and printed none, and a pool too small to analyze
C17_Witness ==
    /\ pc = "done"
    /\ script # "ev_var_outlier"
    /\ Len(reports) = 1
    /\ \E k \in 1..Len(calls) : ReportDue(calls[k])
    /\ \E k \in 1..Len(calls) : calls[k].mcap # <<>> /\ ~ReportDue(calls[k])
    /\ miscellaneous_industries # <<>>
    /\ Len(miscellaneous_industries) < MINIMUM_GROUP_SIZE

----------------------------------------------------------------------------
(* Properties of the failures *)

\* C18: a call on an existing file that lacks required columns prints a warning
\* that names them and goes on to its end: it raises nothing because of them.
C18_MissingColumnsWarnAndContinue ==
    Returned /\ file_exists /\ RequiredColumns(script) \cap missing_columns # {} =>
        /\ \E w \in 1..Len(warnings) :
               /\ warnings[w].kind = "missing"
               /\ warnings[w].columns = RequiredColumns(script) \cap missing_columns
        /\ failure = ""
        /\ pc = "done"

\* C19: no exception leaves find_mcap_ev_outliers / find_dual_outliers: a call
\* on a file that does not exist prints the file-not-found message, a call in
\* which anything else is raised prints the unexpected-error message, in both
\* cases once and then the function returns; a call in which nothing is raised
\* prints neither.
C19_NoExceptionEscapes ==
    /\ pc # "raised"
    /\ Started =>
           /\ ~file_exists => failure = "FileNotFoundError"
           /\ failure = "FileNotFoundError" =>
                  ~file_exists /\ pc = "failed" /\ errors = <<"file not found">>
           /\ failure \notin {"", "FileNotFoundError"} =>
                  pc = "failed" /\ errors = <<"unexpected error">>
           /\ failure = "" => errors = <<>> /\ pc # "failed"

\* a call that returned after a KeyError raised in the middle of the analysis,
\* with a group already analyzed
C19_Witness ==
    /\ pc = "failed"
    /\ failure = "KeyError"
    /\ calls # <<>>
    /\ errors = <<"unexpected error">>

\* C20: when the command-line entry point finishes, the report file is closed,
\* or was never opened when opening it failed, and sys.stdout is the original
\* standard output; nothing was printed to the report file after it was
\* closed; while the analysis runs its output goes to the open file.
C20_StdoutRestored ==
    /\ pc = "exit" =>
           /\ sys_stdout = "original"
           /\ report_file = IF open_fails THEN "none" ELSE "closed"
    /\ closed_writes = 0
    /\ entry = "main" /\ (pc = "start" \/ Started) =>
           /\ report_file = "open"
           /\ sys_stdout = IF script = "ev_var_outlier" THEN "tee" ELSE "file"
    /\ entry = "call" => sys_stdout = "original" /\ report_file = "none"

\* the entry point finished after an analysis that failed
C20_Witness ==
    /\ pc = "exit"
    /\ failure = "KeyError"
    /\ report_file = "closed"
    /\ sys_stdout = "original"

----------------------------------------------------------------------------
(* Properties of the single-metric note *)

\* the bounds stored for the group that get_outlier_note resolves for the row:
\* a set of one entry, or empty
ResolvedBounds(row) ==
    {mcap_bounds[g] : g \in {GroupNameOf(row.IndustryName, row.SectorName,
                                         small_industries)} \cap DOMAIN mcap_bounds}

\* the rows of the two tables and of the per-group reports, with their notes
NotedRows ==
    {top_table[i] : i \in 1..Len(top_table)}
        \cup {bottom_table[i] : i \in 1..Len(bottom_table)}
        \cup UNION {{[Symbol |-> reports[r].rows[j].Symbol,
                      MCapEV |-> RowOf(reports[r].rows[j].Symbol).MCapEV,
                      Note   |-> reports[r].rows[j].Note] :
                        j \in 1..Len(reports[r].rows)} : r \in 1..Len(reports)}

\* C21: in single-metric mode the note of a row is LOW exactly when its ratio is
\* strictly below the lower bound stored for the group resolved for the row,
\* HIGH exactly when it is strictly above the upper bound, and "Within Normal
\* Range" otherwise, which includes a ratio equal to a bound and a resolved
\* group without stored bounds; no other note is returned, and the notes of
\* the two tables are the notes so defined.
C21_SingleMetricNote ==
    script # "ev_var_outlier" =>
        /\ \A i \in 1..Len(df) :
               LET note == GetOutlierNote(df[i], mcap_bounds, small_industries)
                   b    == ResolvedBounds(df[i])
               IN  /\ note \in {LOW_NOTE, HIGH_NOTE, NORMAL_NOTE}
                   /\ note = LOW_NOTE <=> \E x \in b : 8 * df[i].MCapEV < x.lower
                   /\ note = HIGH_NOTE <=> \E x \in b : 8 * df[i].MCapEV > x.upper
                   /\ (\A x \in b : x.lower <= 8 * df[i].MCapEV /\ 8 * df[i].MCapEV <= x.upper)
                          => note = NORMAL_NOTE
        /\ \A t \in NotedRows : t.Note \in {LOW_NOTE, HIGH_NOTE, NORMAL_NOTE}
        /\ pc = "done" =>
               \A i \in 1..Len(top_table) :
                   top_table[i].Note =
                       GetOutlierNote(RowOf(top_table[i].Symbol), mcap_bounds, small_industries)

\* a finished single-metric run whose top table shows a row with the ratio of
\* the lower bound, within normal range, and a row flagged HIGH
C21_Witness ==
    /\ pc = "done"
    /\ script # "ev_var_outlier"
    /\ \E i \in 1..Len(top_table) :
           /\ top_table[i].Note = NORMAL_NOTE
           /\ \E x \in ResolvedBounds(RowOf(top_table[i].Symbol)) :
                  8 * top_table[i].MCapEV = x.lower
    /\ \E i \in 1..Len(top_table) : top_table[i].Note = HIGH_NOTE

----------------------------------------------------------------------------
(* Properties of the top-N and bottom-N tables *)

\* the rows of the input file that are tradable and carry a valid ratio
TradableInput ==
    {rows[i] : i \in {j \in 1..Len(rows) :
                         rows[j].TradeMode # 3 /\ rows[j].MCapEVText = "number"}}

\* the smaller of two numbers
Min(a, b) == IF a < b THEN a ELSE b

\* the table lists each of its instruments once, with the ratio of the input
ListsTradable(table) ==
    /\ Cardinality(Symbols(table)) = Len(table)
    /\ \A i \in 1..Len(table) :
           \E r \in TradableInput : r.Symbol = table[i].Symbol /\ r.MCapEV = table[i].MCapEV

\* C22: in ev_outlier.py and ev_var_outlier.py the top-N table of a finished
\* run holds min(N, number of tradable instruments) instruments of the whole
\* tradable set, in descending order of ratio, and no tradable instrument
\* outside it has a ratio above that of one inside; the bottom-N table holds
\* as many, in ascending order, and no tradable instrument outside it has a
\* ratio below that of one inside; N is the run's TOP_N_DISPLAY for both.
C22_TopAndBottomN ==
    pc = "done" /\ script \in {"ev_outlier", "ev_var_outlier"} =>
        /\ Len(top_table) = Min(TOP_N_DISPLAY, Cardinality(TradableInput))
        /\ Len(bottom_table) = Min(TOP_N_DISPLAY, Cardinality(TradableInput))
        /\ ListsTradable(top_table)
        /\ ListsTradable(bottom_table)
        /\ \A r \in TradableInput :
               /\ r.Symbol \notin Symbols(top_table) =>
                      \A i \in 1..Len(top_table) : r.MCapEV <= top_table[i].MCapEV
               /\ r.Symbol \notin Symbols(bottom_table) =>
                      \A i \in 1..Len(bottom_table) : r.MCapEV >= bottom_table[i].MCapEV
        /\ \A i \in 1..Len(top_table), j \in 1..Len(top_table) :
               i < j => top_table[i].MCapEV >= top_table[j].MCapEV
        /\ \A i \in 1..Len(bottom_table), j \in 1..Len(bottom_table) :
               i < j => bottom_table[i].MCapEV <= bottom_table[j].MCapEV

\* a finished run on more than N tradable instruments and a close-only one,
\* whose top table holds instruments of two industries and leaves out an
\* instrument that the bottom table holds
C22_Witness ==
    /\ pc = "done"
    /\ script \in {"ev_outlier", "ev_var_outlier"}
    /\ Cardinality(TradableInput) > TOP_N_DISPLAY
    /\ Len(rows) > Cardinality(TradableInput)
    /\ Len(top_table) = TOP_N_DISPLAY
    /\ \E i \in 1..Len(top_table), j \in 1..Len(top_table) :
           RowOf(top_table[i].Symbol).IndustryName # RowOf(top_table[j].Symbol).IndustryName
    /\ Symbols(bottom_table) \ Symbols(top_table) # {}

----------------------------------------------------------------------------
(* Properties of N over the calls of one process *)

\* C23: over the calls of one process the N of a call depends on its filename
\* alone: a call uses the N that every earlier call on the same filename used,
\* whatever was analyzed, successfully or not, in between.
C23_TopNFunctionOfFilename ==
    Started =>
        \A k \in 1..Len(previous) :
            previous[k].filename = filename => previous[k].TOP_N_DISPLAY = TOP_N_DISPLAY

----------------------------------------------------------------------------
(* Properties of the notes against the groups *)

\* C24: every row of a per-group report, a row printed because its ratio is
\* outside the bounds of the group, carries the LOW or the HIGH note, whatever
\* the kind of the group.
C24_ReportRowsFlagged ==
    \A r \in 1..Len(reports) :
        \A j \in 1..Len(reports[r].rows) :
            reports[r].rows[j].Note \in {LOW_NOTE, HIGH_NOTE}

\* the reports of the industries and of the aggregates of the sectors other than
\* "Undefined" carry only LOW and HIGH notes
ReportRowsOfNamedGroups ==
    \A r \in 1..Len(reports) :
        reports[r].group \notin {Upper(AGGREGATED_MISCELLANEOUS),
                                 Upper(AggregatedName(Undefined))} =>
            \A j \in 1..Len(reports[r].rows) :
                reports[r].rows[j].Note \in {LOW_NOTE, HIGH_NOTE}

\* the instruments the run shows flagged: with a LOW or HIGH note in a table or
\* a report of the single-metric scripts, with a non-empty Note in the dual one
FlaggedSymbols ==
    IF script = "ev_var_outlier"
    THEN {sym \in DOMAIN Note : Note[sym] # <<>>}
    ELSE {t.Symbol : t \in {u \in NotedRows : u.Note \in {LOW_NOTE, HIGH_NOTE}}}

\* C25: an instrument flagged LOW or HIGH was compared against bounds computed
\* from a group that holds it: the group name resolved for it is the name of a
\* call of analyze_group whose frame contains the instrument.
C25_FlaggedAgainstOwnGroup ==
    \A sym \in FlaggedSymbols :
        \E k \in CallsHolding(sym) :
            calls[k].name = GroupNameOf(RowOf(sym).IndustryName, RowOf(sym).SectorName,
                                        small_industries)

\* the same for the instruments of the sectors other than "Undefined"
FlaggedOutsideUndefined ==
    \A sym \in FlaggedSymbols :
        RowOf(sym).SectorName # Undefined =>
            \E k \in CallsHolding(sym) :
                calls[k].name = GroupNameOf(RowOf(sym).IndustryName, RowOf(sym).SectorName,
                                            small_industries)

----------------------------------------------------------------------------
(* Properties of the entries of the bounds mappings *)

\* the entry lies strictly outside the quartiles of the values (all times 8),
\* and one of the values lies inside it
AroundQuartiles(entry_, values) ==
    /\ entry_.lower < 2 * Percentile4(values, 1)
    /\ 2 * Percentile4(values, 1) <= 2 * Percentile4(values, 3)
    /\ 2 * Percentile4(values, 3) < entry_.upper
    /\ entry_.lower < entry_.upper
    /\ \E j \in 1..Len(values) : entry_.lower <= 8 * values[j] /\ 8 * values[j] <= entry_.upper

\* C26: every entry of a bounds mapping satisfies lower < Q1 <= Q3 < upper for
\* the group whose call stored it, hence lower < upper, and at least one member
\* of that group lies inside the bounds.
C26_BoundsAroundQuartiles ==
    /\ \A name \in DOMAIN mcap_bounds :
           \E k \in 1..Len(calls) :
               /\ calls[k].name = name
               /\ calls[k].mcap = <<mcap_bounds[name]>>
               /\ AroundQuartiles(mcap_bounds[name], ValuesOf(calls[k], "MCapEV"))
    /\ \A name \in DOMAIN var_bounds :
           \E k \in 1..Len(calls) :
               /\ calls[k].name = name
               /\ calls[k].var = <<var_bounds[name]>>
               /\ AroundQuartiles(var_bounds[name], ValuesOf(calls[k], "VaR_to_Ask_Ratio"))
    /\ \A k \in 1..Len(calls) :
           /\ \A j \in 1..Len(calls[k].mcap) :
                  AroundQuartiles(calls[k].mcap[j], ValuesOf(calls[k], "MCapEV"))
           /\ \A j \in 1..Len(calls[k].var) :
                  AroundQuartiles(calls[k].var[j], ValuesOf(calls[k], "VaR_to_Ask_Ratio"))

\* a finished dual-metric run with entries in both mappings, one of them for a
\* group with members on both sides outside its bounds
C26_Witness ==
    /\ pc = "done"
    /\ script = "ev_var_outlier"
    /\ DOMAIN mcap_bounds # {}
    /\ \E name \in DOMAIN var_bounds :
           \E k \in 1..Len(calls) :
               /\ calls[k].name = name
               /\ \E j \in 1..Len(calls[k].syms) :
                      8 * RowOf(calls[k].syms[j]).VaR_to_Ask_Ratio > var_bounds[name].upper

\* the call stored an entry: its frame has a non-zero IQR in a column analyzed
Stores(call) ==
    \/ ExpectedBounds(ValuesOf(call, "MCapEV")) # <<>>
    \/ script = "ev_var_outlier" /\ ExpectedBounds(ValuesOf(call, "VaR_to_Ask_Ratio")) # <<>>

\* C27: within one run no two calls of analyze_group that store bounds store
\* them under the same group name.
C27_KeysWrittenOnce ==
    \A k1 \in 1..Len(calls), k2 \in 1..Len(calls) :
        k1 # k2 /\ Stores(calls[k1]) /\ Stores(calls[k2]) => calls[k1].name # calls[k2].name

\* the same for the files whose sector names differ in more than case and whose
\* industries are not named like an aggregate
KeysWrittenOnceOtherwise ==
    rows \notin {SectorCaseRows, IndustryNameRows} => C27_KeysWrittenOnce

----------------------------------------------------------------------------
(* Properties of scrape_from_csv *)

\* the calls of get_financial_data made for row i, in the order they were made
LookupsOf(i) == SelectSeq(lookups, LAMBDA l : l.index = i)

\* a row of the file that holds an Enterprise Value, or is of sector "Currency"
\* or of industry "Exchange Traded Fund"
Skipped(row) ==
    \/ row.EnterpriseValue # <<>>
    \/ row.SectorName = Currency
    \/ row.IndustryName = ExchangeTradedFund

\* the rows of the file the loop has gone past
Passed == {i \in 1..Len(csv_path) : scrape_pc \in {"loop", "saved"} /\ i < index}

\* C28: a row with an Enterprise Value, a row of sector "Currency" and a row of
\* industry "Exchange Traded Fund" trigger no lookup and keep every cell, in
\* the frame and in the file written; every other row the loop has gone past
\* was looked up and holds what the lookup returned.
C28_SkippedRowsUntouched ==
    scrape_pc \in {"loop", "saved"} =>
        \A i \in 1..Len(csv_path) :
            IF Skipped(csv_path[i])
            THEN /\ LookupsOf(i) = <<>>
                 /\ scrape_df[i] = csv_path[i]
                 /\ scrape_pc = "saved" => output_csv[i] = csv_path[i]
            ELSE i \in Passed =>
                 /\ LookupsOf(i) # <<>>
                 /\ \E k \in 1..Len(LookupsOf(i)) :
                        /\ scrape_df[i].NextEarningsDate = LookupsOf(i)[k].returned.next_earnings_date
                        /\ scrape_df[i].NextDividendDate = LookupsOf(i)[k].returned.next_dividend_date
                 /\ scrape_pc = "saved" => output_csv[i] = scrape_df[i]

\* a file saved whose two rows were both left alone: one that held an
\* Enterprise Value and one exchange traded fund without one
C28_AllSkipped ==
    /\ scrape_pc = "saved"
    /\ Len(csv_path) = 2
    /\ csv_path[1].EnterpriseValue = <<7>> /\ ProcessMask(csv_path[1])
    /\ csv_path[2].EnterpriseValue = <<>> /\ csv_path[2].IndustryName = ExchangeTradedFund
    /\ output_csv = csv_path
    /\ lookups = <<>>

\* a file saved with a row of sector "Currency" left alone and a row written
C28_Witness ==
    /\ scrape_pc = "saved"
    /\ \E i, j \in 1..Len(csv_path) :
           /\ csv_path[i].SectorName = Currency /\ csv_path[i].EnterpriseValue = <<>>
           /\ output_csv[i] = csv_path[i]
           /\ ~Skipped(csv_path[j])
           /\ output_csv[j].EnterpriseValue = <<4>>

\* the ticker the first lookup of a symbol of the files is made with
ClassShareForm(symbol) ==
    IF symbol = BRKb THEN <<"B","R","K","-","B">> ELSE symbol

\* C29: a processed row is looked up once or twice; the first lookup is of the
\* class-share form for a symbol of more than 2 characters ending in "a" or
\* "b" and of the symbol itself otherwise; a second lookup, of the original
\* symbol, is made exactly when the symbol was rewritten and the first lookup
\* returned neither value; the row holds the values of the last lookup.
C29_AtMostTwoLookups ==
    \A i \in Passed :
        ~Skipped(csv_path[i]) =>
            LET made   == LookupsOf(i)
                symbol == csv_path[i].Symbol
                last   == made[Len(made)].returned
            IN  /\ Len(made) \in {1, 2}
                /\ made[1].ticker = ClassShareForm(symbol)
                /\ Len(made) = 2 <=>
                       /\ Len(symbol) > 2
                       /\ symbol[Len(symbol)] \in {"a", "b"}
                       /\ made[1].returned.enterprise_value = <<>>
                       /\ made[1].returned.market_cap = <<>>
                /\ Len(made) = 2 => made[2].ticker = symbol
                /\ scrape_df[i].EnterpriseValue = last.enterprise_value
                /\ scrape_df[i].MarketCap = last.market_cap
                /\ scrape_df[i].NextEarningsDate = last.next_earnings_date
                /\ scrape_df[i].NextDividendDate = last.next_dividend_date

\* a file saved with a class share found under its original symbol only, and a
\* two-character symbol ending in "a" looked up once as it is
C29_Witness ==
    /\ scrape_pc = "saved"
    /\ \E i, j \in 1..Len(csv_path) :
           /\ csv_path[i].Symbol = BRKb
           /\ Len(LookupsOf(i)) = 2
           /\ LookupsOf(i)[1].ticker = <<"B","R","K","-","B">>
           /\ LookupsOf(i)[2].ticker = BRKb
           /\ LookupsOf(i)[1].outcome.kind = "404"
           /\ output_csv[i].EnterpriseValue = <<4>>
           /\ output_csv[i].MarketCap = <<3>>
           /\ csv_path[j].Symbol = Xa
           /\ Len(LookupsOf(j)) = 1
           /\ LookupsOf(j)[1].ticker = Xa

\* C30: a processed row holds a MCap/EV (%) value exactly when it holds both
\* values and its Enterprise Value is above zero, and the value is then
\* market cap / enterprise value * 100; in every other case the cell is empty,
\* and no value has a zero denominator.
C30_RatioOnlyForPositiveEV ==
    \A i \in Passed :
        ~Skipped(csv_path[i]) =>
            LET ev    == scrape_df[i].EnterpriseValue
                mc    == scrape_df[i].MarketCap
                ratio == scrape_df[i].MCapEVRatio
            IN  IF ev # <<>> /\ mc # <<>> /\ ev[1] > 0
                THEN /\ ratio # <<>>
                     /\ ratio[1].den > 0
                     /\ ratio[1].num * ev[1] = mc[1] * 100 * ratio[1].den
                ELSE ratio = <<>>

\* a file saved with a row of ratio 75 and a row whose Enterprise Value is 0
C30_Witness ==
    /\ scrape_pc = "saved"
    /\ \E i, j \in 1..Len(csv_path) :
           /\ ~Skipped(csv_path[i])
           /\ output_csv[i].EnterpriseValue = <<4>>
           /\ output_csv[i].MarketCap = <<3>>
           /\ output_csv[i].MCapEVRatio = << [num |-> 75, den |-> 1] >>
           /\ ~Skipped(csv_path[j])
           /\ output_csv[j].EnterpriseValue = <<0>>
           /\ output_csv[j].MarketCap = <<3>>
           /\ output_csv[j].MCapEVRatio = <<>>

====
